---- MODULE Spec2Model ----
(***************************************************************************)
(* Model of the chapter validation and splitting pipeline of upoko:        *)
(* chapterValidator.ts (pure validation), audioSplitter.ts (the split      *)
(* orchestrator), the parts of ffmpegService.ts the orchestrator calls,    *)
(* the file naming helpers of fileService.ts and the split command.        *)
(*   Spec          splitAudioByChapters, called repeatedly for one job     *)
(*   RunSpec       one call of splitAudioByChapters, with fairness         *)
(*   ValidatorSpec the validator functions applied to chapter lists        *)
(*   TitleSpec     normalizeChapterTitles applied to title lists           *)
(*   SanitizeSpec  sanitizeFilename applied to names and length limits     *)
(*   UniqueSpec    generateUniqueFilename probing a directory              *)
(*   SortSpec      sortChaptersByStartTime applied to chapter lists        *)
(*   CommandSpec   the split command: split, then playlist                 *)
(*   ProcessSpec   runs of the process command sharing the processed log   *)
(* Times are integer milliseconds, sizes integer bytes.  Message strings   *)
(* are records holding the values the code interpolates into them.         *)
(***************************************************************************)
EXTENDS Integers, Sequences, FiniteSets, TLC

\* ---------------------------------------------------------------- bounds
MaxChapters == 2
MaxCpu == 10
\* Longest chapter list handed to the validator functions.
MaxListLen == 3
\* Longest short title or file name (in characters) handed to the naming
\* functions.
MaxTextLen == 3
\* Highest collision number of a file already in the directory.
MaxExisting == 3
\* Number of runs of the process command over one input directory.
MaxRuns == 3

\* ------------------------------------------------------- input universes
\* A record whose title field is missing (undefined at run time).
NoTitle == <<"undefined">>
Titles == {<<"a">>, NoTitle}
StartVals == {100 * k : k \in 0..(MaxChapters - 1)}
LenVals == {100}
Durations == {100 * (MaxChapters - 1), 100 * MaxChapters}
InputSizes == {11}
AvailVals == {12, 13, 14}
\* null / undefined for a number (sizes and durations are never negative).
Null == 0 - 1
NoInfo == [duration |-> Null, size |-> Null]
Formats == {"mp3", "m4a"}

ChapterPool == [title : Titles, startOffsetMs : StartVals, lengthMs : LenVals]

\* ------------------------------------------------------------- messages
Msg(kind, n, ms) == [kind |-> kind, chapter |-> n, ms |-> ms]

\* F applied to the value of x: x is evaluated once, whatever the number of
\* times F uses its parameter.
Apply(F(_), x) == CHOOSE r \in {F(v) : v \in {x}} : TRUE

Max2(a, b) == IF a >= b THEN a ELSE b
Min2(a, b) == IF a <= b THEN a ELSE b

\* ----------------------------------------------------- chapterValidator
\* [...chapters].sort((a, b) => a.startOffsetMs - b.startOffsetMs): a stable
\* sort on the start offset alone.
RECURSIVE InsertByStart(_, _)
InsertByStart(s, x) ==
    IF s = <<>> THEN <<x>>
    ELSE IF s[Len(s)].startOffsetMs <= x.startOffsetMs THEN Append(s, x)
    ELSE Append(Apply(LAMBDA p : InsertByStart(p, x), SubSeq(s, 1, Len(s) - 1)), s[Len(s)])

RECURSIVE SortByStart(_)
SortByStart(s) ==
    IF s = <<>> THEN <<>>
    ELSE Apply(LAMBDA p : InsertByStart(p, s[Len(s)]), SortByStart(SubSeq(s, 1, Len(s) - 1)))

\* sortChaptersByStartTime: stable sort, start ascending then length ascending.
ChapterLeqUnordered(a, b) == TRUE
ChapterLeqStartOnly(a, b) == a.startOffsetMs <= b.startOffsetMs
ChapterLeq(a, b) ==
    IF a.startOffsetMs # b.startOffsetMs
    THEN a.startOffsetMs <= b.startOffsetMs
    ELSE a.lengthMs <= b.lengthMs

RECURSIVE InsertChapter(_, _)
InsertChapter(s, x) ==
    IF s = <<>> THEN <<x>>
    ELSE IF ChapterLeq(s[Len(s)], x) THEN Append(s, x)
    ELSE Append(Apply(LAMBDA p : InsertChapter(p, x), SubSeq(s, 1, Len(s) - 1)), s[Len(s)])

RECURSIVE sortChaptersByStartTime(_)
sortChaptersByStartTime(s) ==
    IF s = <<>> THEN <<>>
    ELSE Apply(LAMBDA p : InsertChapter(p, s[Len(s)]), sortChaptersByStartTime(SubSeq(s, 1, Len(s) - 1)))

\* !chapters || chapters.length === 0, lines 16, 80.
IsEmptyListNever(chapters) == FALSE
IsEmptyList(chapters) == Len(chapters) = 0

\* currentChapterEnd > nextChapter.startOffsetMs, line 54.
OverlapsOrTouches(cur, next) == cur.startOffsetMs + cur.lengthMs >= next.startOffsetMs
Overlaps(cur, next) == cur.startOffsetMs + cur.lengthMs > next.startOffsetMs

\* overlapMs, line 56.
OverlapMsWholeChapter(cur, next) == cur.lengthMs
OverlapMs(cur, next) == cur.startOffsetMs + cur.lengthMs - next.startOffsetMs

\* The loop body of validateChapterSequence for index i (1-based) and on.
RECURSIVE SequenceErrors(_, _)
SequenceErrors(sorted, i) ==
    IF i > Len(sorted) THEN <<>>
    ELSE LET c == sorted[i]
             neg == IF c.startOffsetMs < 0
                    THEN <<Msg("negativeStart", i, c.startOffsetMs)>> ELSE <<>>
             nonpos == IF c.lengthMs <= 0
                       THEN <<Msg("nonPositiveLength", i, c.lengthMs)>> ELSE <<>>
             over == IF i < Len(sorted) /\ Overlaps(c, sorted[i + 1])
                     THEN <<Msg("overlap", i, OverlapMs(c, sorted[i + 1]))>>
                     ELSE <<>>
         IN neg \o nonpos \o over \o SequenceErrors(sorted, i + 1)

\* result.isValid of validateChapterSequence: set to false at lines 39, 45, 55.
SequenceValid(sorted) ==
    \A i \in 1..Len(sorted) :
        /\ ~(sorted[i].startOffsetMs < 0)
        /\ ~(sorted[i].lengthMs <= 0)
        /\ ~(i < Len(sorted) /\ Overlaps(sorted[i], sorted[i + 1]))

validateChapterSequence(chapters) ==
    IF IsEmptyList(chapters)
    THEN [isValid |-> FALSE, errors |-> <<Msg("noChapters", 0, 0)>>, warnings |-> <<>>]
    ELSE LET sorted == SortByStart(chapters)
             errs == SequenceErrors(sorted, 1)
             unordered == \E i \in 1..Len(chapters) :
                              chapters[i].startOffsetMs # sorted[i].startOffsetMs
         IN [isValid |-> SequenceValid(sorted),
             errors |-> errs,
             warnings |-> IF unordered THEN <<Msg("notChronological", 0, 0)>> ELSE <<>>]

RECURSIVE TimingErrors(_, _)
TimingErrors(sorted, i) ==
    IF i > Len(sorted) THEN <<>>
    ELSE LET c == sorted[i]
             neg == IF c.startOffsetMs < 0
                    THEN <<Msg("negativeStart", i, c.startOffsetMs)>> ELSE <<>>
             nonpos == IF c.lengthMs <= 0
                       THEN <<Msg("nonPositiveDuration", i, c.lengthMs)>> ELSE <<>>
         IN neg \o nonpos \o TimingErrors(sorted, i + 1)

RECURSIVE TimingWarnings(_, _)
TimingWarnings(sorted, i) ==
    IF i > Len(sorted) THEN <<>>
    ELSE LET c == sorted[i]
             short == IF c.lengthMs > 0 /\ c.lengthMs < 30000
                      THEN <<Msg("veryShort", i, c.lengthMs)>> ELSE <<>>
             long == IF c.lengthMs > 14400000
                     THEN <<Msg("veryLong", i, c.lengthMs)>> ELSE <<>>
         IN short \o long \o TimingWarnings(sorted, i + 1)

\* lastChapterEnd starts at 0 and only grows.
RECURSIVE LastChapterEnd(_, _)
LastChapterEnd(sorted, i) ==
    IF i = 0 THEN 0
    ELSE Max2(LastChapterEnd(sorted, i - 1),
              sorted[i].startOffsetMs + sorted[i].lengthMs)

\* result.isValid of validateChapterTiming: set to false at lines 98, 103, 128.
TimingValidIgnoreDuration(sorted, totalDurationMs) ==
    \A i \in 1..Len(sorted) :
        ~(sorted[i].startOffsetMs < 0) /\ ~(sorted[i].lengthMs <= 0)
TimingValid(sorted, totalDurationMs) ==
    /\ \A i \in 1..Len(sorted) :
          ~(sorted[i].startOffsetMs < 0) /\ ~(sorted[i].lengthMs <= 0)
    /\ ~(totalDurationMs # Null
          /\ LastChapterEnd(sorted, Len(sorted)) > totalDurationMs)

\* totalDurationMs = Null stands for an omitted (undefined) argument.
validateChapterTiming(chapters, totalDurationMs) ==
    IF IsEmptyList(chapters)
    THEN [isValid |-> FALSE, errors |-> <<Msg("noChaptersTiming", 0, 0)>>, warnings |-> <<>>]
    ELSE LET sorted == SortByStart(chapters)
             lastEnd == LastChapterEnd(sorted, Len(sorted))
             beyond == IF totalDurationMs # Null /\ lastEnd > totalDurationMs
                       THEN <<Msg("beyondDuration", 0, lastEnd - totalDurationMs)>>
                       ELSE <<>>
             \* (lastEnd / total) * 100 < 90
             coverage == IF totalDurationMs # Null /\ totalDurationMs > 0
                            /\ lastEnd * 100 < 90 * totalDurationMs
                         THEN <<Msg("lowCoverage", 0, totalDurationMs - lastEnd)>>
                         ELSE <<>>
             errs == TimingErrors(sorted, 1) \o beyond
         IN [isValid |-> TimingValid(sorted, totalDurationMs),
             errors |-> errs,
             warnings |-> TimingWarnings(sorted, 1) \o coverage]

\* nextStart > currentEnd + 1000, line 217.
IsGapInclusive(currentEnd, nextStart) == nextStart >= currentEnd + 1000
IsGap(currentEnd, nextStart) == nextStart > currentEnd + 1000

RECURSIVE GapList(_, _)
GapList(sorted, i) ==
    IF i >= Len(sorted) THEN <<>>
    ELSE LET currentEnd == sorted[i].startOffsetMs + sorted[i].lengthMs
             nextStart == sorted[i + 1].startOffsetMs
             gap == IF IsGap(currentEnd, nextStart)
                    THEN <<[chapterIndex |-> i - 1, gapStartMs |-> currentEnd,
                            gapEndMs |-> nextStart,
                            gapDurationMs |-> nextStart - currentEnd]>>
                    ELSE <<>>
         IN gap \o GapList(sorted, i + 1)

RECURSIVE SumGaps(_)
SumGaps(gaps) ==
    IF gaps = <<>> THEN 0 ELSE gaps[1].gapDurationMs + SumGaps(Tail(gaps))

detectChapterGaps(chapters) ==
    IF Len(chapters) <= 1
    THEN [hasGaps |-> FALSE, gaps |-> <<>>, totalGapDurationMs |-> 0]
    ELSE LET gaps == GapList(SortByStart(chapters), 1)
         IN [hasGaps |-> gaps # <<>>, gaps |-> gaps, totalGapDurationMs |-> SumGaps(gaps)]

validateChaptersSequenceOnly(chapters, totalDurationMs) ==
    LET sequenceResult == validateChapterSequence(chapters)
        timingResult == validateChapterTiming(chapters, totalDurationMs)
    IN [isValid |-> sequenceResult.isValid,
        errors |-> sequenceResult.errors \o timingResult.errors,
        warnings |-> sequenceResult.warnings \o timingResult.warnings]

validateChapters(chapters, totalDurationMs) ==
    LET sequenceResult == validateChapterSequence(chapters)
        timingResult == validateChapterTiming(chapters, totalDurationMs)
        gapResult == detectChapterGaps(chapters)
        gapWarnings == [k \in 1..Len(gapResult.gaps) |->
                           Msg("gap", gapResult.gaps[k].chapterIndex,
                               gapResult.gaps[k].gapDurationMs)]
        totalWarning == IF gapResult.hasGaps /\ gapResult.totalGapDurationMs > 10000
                        THEN <<Msg("totalGap", Len(gapResult.gaps),
                                   gapResult.totalGapDurationMs)>>
                        ELSE <<>>
    IN [isValid |-> sequenceResult.isValid /\ timingResult.isValid,
        errors |-> sequenceResult.errors \o timingResult.errors,
        warnings |-> sequenceResult.warnings \o timingResult.warnings
                         \o gapWarnings \o totalWarning]


\* Character classes of the regular expressions in normalizeChapterTitles.
ForbiddenChars == {"<", ">", ":", "\"", "/", "\\", "|", "?", "*"}
WhitespaceChars == {" ", "\t"}
DotOrSpace == WhitespaceChars \cup {"."}
MaxTitleLength == 200
Ellipsis == <<".", ".", ".">>
Digits == <<"0", "1", "2", "3", "4", "5", "6", "7", "8", "9">>

RECURSIVE ToChars(_)
ToChars(n) == IF n < 10 THEN <<Digits[n + 1]>>
              ELSE ToChars(n \div 10) \o <<Digits[(n % 10) + 1]>>

\* .replace(/[<>:"/\\|?*]/g, '')
RemoveForbidden(t) == SelectSeq(t, LAMBDA c : c \notin ForbiddenChars)

\* .replace(/\s+/g, ' ')
\* Each run of whitespace becomes one space: the last character of a run is
\* kept as a space, the others are dropped.
CollapseWhitespace(t) ==
    LET marked == [k \in 1..Len(t) |->
                      IF t[k] \notin WhitespaceChars THEN <<t[k]>>
                      ELSE IF k < Len(t) /\ t[k + 1] \in WhitespaceChars THEN <<>>
                      ELSE <<" ">>]
        kept == SelectSeq(marked, LAMBDA m : m # <<>>)
    IN [k \in 1..Len(kept) |-> kept[k][1]]

RECURSIVE StripLeading(_, _)
StripLeading(t, cls) ==
    IF t # <<>> /\ t[1] \in cls THEN StripLeading(Tail(t), cls) ELSE t

RECURSIVE StripTrailing(_, _)
StripTrailing(t, cls) ==
    IF t # <<>> /\ t[Len(t)] \in cls
    THEN StripTrailing(SubSeq(t, 1, Len(t) - 1), cls) ELSE t

Trim(t) ==
    Apply(LAMBDA v : StripTrailing(v, WhitespaceChars),
          Apply(LAMBDA v : StripLeading(v, WhitespaceChars), t))

UpperOf(c) == CASE c = "c" -> "C" [] c = "o" -> "O" [] c = "n" -> "N"
                [] c = "p" -> "P" [] c = "r" -> "R" [] c = "a" -> "A"
                [] c = "u" -> "U" [] c = "x" -> "X" [] c = "l" -> "L"
                [] c = "m" -> "M" [] c = "t" -> "T" [] OTHER -> c
ToUpper(t) == [k \in 1..Len(t) |-> UpperOf(t[k])]

\* /^(CON|PRN|AUX|NUL|COM[1-9]|LPT[1-9])$/i
IsReservedName(t) ==
    \E u \in {ToUpper(t)} :
       \/ u \in {<<"C", "O", "N">>, <<"P", "R", "N">>, <<"A", "U", "X">>, <<"N", "U", "L">>}
       \/ /\ Len(u) = 4
          /\ SubSeq(u, 1, 3) \in {<<"C", "O", "M">>, <<"L", "P", "T">>}
          /\ u[4] \in {Digits[k] : k \in 2..10}

ChapterWord == <<"C", "h", "a", "p", "t", "e", "r">>
ChapterSuffix == <<"_", "c", "h", "a", "p", "t", "e", "r">>

\* The body of the map callback of normalizeChapterTitles; index is 0-based.
NormalizeTitle(title, index) ==
    LET Cleaned(t) == Trim(Apply(CollapseWhitespace, Apply(RemoveForbidden, t)))
        Named(cleaned) ==
            IF cleaned = <<>> THEN ChapterWord \o <<" ">> \o ToChars(index + 1)
            ELSE cleaned
        Limited(named) ==
            IF Len(named) > MaxTitleLength
            THEN SubSeq(named, 1, MaxTitleLength - 3) \o Ellipsis
            ELSE named
        Edges(limited) ==
            Apply(LAMBDA v : StripTrailing(v, DotOrSpace), StripLeading(limited, DotOrSpace))
        Ending(edges) == StripTrailing(edges, DotOrSpace)
        Suffixed(ending) ==
            IF IsReservedName(ending) THEN ending \o ChapterSuffix ELSE ending
    IN Apply(Suffixed, Apply(Ending, Apply(Edges, Apply(Limited,
           Apply(Named, Apply(Cleaned, title))))))

\* chapter.title.replace(...) on a record without a title is a TypeError.
NormalizeThrows(chapters) == \E k \in 1..Len(chapters) : chapters[k].title = NoTitle

normalizeChapterTitles(chapters) ==
    [k \in 1..Len(chapters) |->
        [chapters[k] EXCEPT !.title = NormalizeTitle(chapters[k].title, k - 1)]]

\* ----------------------------------------------------------- fileService
\* A character is a string; Delete stands for U+007F.
Delete == "DEL"
\* Members of [\x00-\x1f\x80-\x9f], the class sanitizeFilename removes.
RemovedControlChars == {"\t", "\n"}
\* Control characters: U+0000-001F and U+007F-009F.
ControlChars == RemovedControlChars \cup {Delete}

RemoveControl(t) == SelectSeq(t, LAMBDA c : c \notin RemovedControlChars)

\* 1-based position of the last c in t, 0 when there is none.
LastIndexOf(t, c) ==
    LET at == {k \in 1..Len(t) : t[k] = c}
    IN IF at = {} THEN 0 ELSE CHOOSE k \in at : \A j \in at : j <= k

\* .replace(/\.[^.]*$/, '')
StripExtension(t) ==
    IF LastIndexOf(t, ".") = 0 THEN t ELSE SubSeq(t, 1, LastIndexOf(t, ".") - 1)

FileSuffix == <<"_", "f", "i", "l", "e">>
\* maxLength: number = 200, line 132.
DefaultMaxLength == 200
\* The room reserved for a collision suffix, line 170.
SuffixRoom == 10
Unnamed == <<"u", "n", "n", "a", "m", "e", "d">>

\* String.prototype.substring(0, n): a negative n counts as 0.
Substring0(t, n) == SubSeq(t, 1, Min2(Max2(n, 0), Len(t)))

\* sanitizeFilename, lines 132-176.
sanitizeFilename(filename, maxLength) ==
    LET cleaned == Trim(CollapseWhitespace(RemoveControl(RemoveForbidden(filename))))
        renamed == IF IsReservedName(StripExtension(cleaned))
                   THEN cleaned \o FileSuffix ELSE cleaned
        edges == StripTrailing(StripLeading(renamed, DotOrSpace), DotOrSpace)
        ending == StripTrailing(edges, DotOrSpace)
        sanitized == IF ending = <<>> THEN Unnamed ELSE ending
        \* lastIndexOf is 0-based in the code: lastDotIndex = lastDot - 1
        lastDot == LastIndexOf(sanitized, ".")
        split == lastDot - 1 > 0 /\ lastDot - 1 < Len(sanitized) - 1
        baseName == IF split THEN SubSeq(sanitized, 1, lastDot - 1) ELSE sanitized
        extension == IF split THEN SubSeq(sanitized, lastDot, Len(sanitized)) ELSE <<>>
        maxBaseLength == maxLength - Len(extension) - SuffixRoom
        limited == IF Len(baseName) > maxBaseLength
                   THEN Trim(Substring0(baseName, maxBaseLength))
                   ELSE baseName
    IN limited \o extension

\* path.extname: from the last dot on; empty when there is no dot, when the
\* only dot is the first character, and for '..'.
ExtName(name) ==
    IF LastIndexOf(name, ".") <= 1 \/ name = <<".", ".">> THEN <<>>
    ELSE SubSeq(name, LastIndexOf(name, "."), Len(name))

\* path.basename(name, ext) for a name without directory part.
BaseName(name, ext) ==
    IF ext = <<>> \/ ext = name THEN name ELSE SubSeq(name, 1, Len(name) - Len(ext))

\* `${baseName} (${counter})${ext}`, line 273.
UniqueCandidate(filename, counter) ==
    BaseName(filename, ExtName(filename))
        \o <<" ", "(">> \o ToChars(counter) \o <<")">> \o ExtName(filename)

\* The name probed after `tried` collisions: the name itself, then 'base (1)ext',
\* 'base (2)ext', ...
NthCandidate(filename, tried) ==
    IF tried = 0 THEN filename ELSE UniqueCandidate(filename, tried)

\* fs.access(path.join(baseDir, uniqueFilename)) resolves, line 271.
FileInDirNever(dir, name) == FALSE
FileInDir(dir, name) == name \in dir

\* --------------------------------------------------------- audioSplitter
BookTitle == <<"b">>

\* The fields of createChapterMetadata that depend on the chapter, lines 29-49.
createChapterMetadata(chapter, chapterNumber, totalChapters) ==
    [title |-> chapter.title,
     trackNumber |-> [track |-> chapterNumber, of |-> totalChapters]]

\* chapterNumber.toString().padStart(3, '0'), line 379.
PadStart3(digits) ==
    IF Len(digits) >= 3 THEN digits
    ELSE [k \in 1..(3 - Len(digits)) |-> "0"] \o digits

\* A composed name without the chapter number.
generateChapterFileNameNoNumber(bookTitle, chapterNumber, chapterTitle, fmt) ==
    [book |-> Apply(LAMBDA v : SubSeq(v, 1, Min2(50, Len(v))),
                    Trim(Apply(CollapseWhitespace, Apply(RemoveForbidden, bookTitle)))),
     num |-> <<>>,
     title |-> Apply(LAMBDA v : SubSeq(v, 1, Min2(100, Len(v))), chapterTitle),
     ext |-> fmt]

\* `${safeBookTitle} - ${chapterNum} - ${safeChapterTitle}${extension}`:
\* the parts of the composed name.
generateChapterFileName(bookTitle, chapterNumber, chapterTitle, fmt) ==
    [book |-> Apply(LAMBDA v : SubSeq(v, 1, Min2(50, Len(v))),
                    Trim(Apply(CollapseWhitespace, Apply(RemoveForbidden, bookTitle)))),
     num |-> PadStart3(ToChars(chapterNumber)),
     title |-> Apply(LAMBDA v : SubSeq(v, 1, Min2(100, Len(v))), chapterTitle),
     ext |-> fmt]

\* The template string of line 387 and join(config.outputDir, ...) of line
\* 172, as characters; the format is one symbol after the dot.
FileNameString(name) ==
    name.book \o <<" ", "-", " ">> \o name.num \o <<" ", "-", " ">>
        \o name.title \o <<".", name.ext>>

MaxConcurrency == 4

calculateOptimalConcurrencyUncapped(cpuCount, memoryHigh) ==
    LET base == Max2(1, cpuCount \div 2)
    IN IF memoryHigh THEN Max2(1, base \div 2) ELSE base

\* memoryHigh stands for memoryUsageRatio > 0.8.
calculateOptimalConcurrency(cpuCount, memoryHigh) ==
    LET base == Max2(1, cpuCount \div 2)
        reduced == IF memoryHigh THEN Max2(1, base \div 2) ELSE base
    IN Min2(reduced, MaxConcurrency)

\* Math.ceil(inputSize * 1.1); exact for the sizes of InputSizes.
estimateOutputSize(inputSize, chapterCount) == (inputSize * 11 + 9) \div 10


VARIABLES
    chapters,            \* config.chapters, as supplied
    inputFile,           \* duration and size of the file at options.inputPath
    format,              \* config.format
    dryRun,              \* options.dryRun
    overwrite,           \* options.overwrite
    dirExists,           \* the output directory exists
    files,               \* output path -> content, for the files that exist
    pc,                  \* position of splitAudioByChapters
    audioInfo,           \* result of the probe, NoInfo before
    diskSpace,           \* result of checkAvailableDiskSpace (Null: unknown)
    result,              \* the SplitResult under construction
    normalizedChapters,  \* sorted and normalized chapters
    concurrency,         \* batch width, 0 before it is computed
    i,                   \* loop variable: 0-based index of the batch start
    task,                \* chapter number -> state of its processChapterSplit
    chapterFiles,        \* local chapterFiles
    errors,              \* local errors
    rerun,               \* this is not the first call for the job
    resuming,            \* every call so far was non-dry with overwrite false
    files0,              \* files at the start of the current call
    dirCreated,          \* a mkdir of this call created the output directory
    cutInvoked,          \* chapters for which this call invoked the cut
    tagInvoked,          \* chapters for which this call invoked addTags
    tagWarned,           \* chapters whose addTags threw (console.warn)
    tags,                \* the metadata and paths this call handed to addTags
    passed,              \* the preflight checks that passed in this call
    skipped,             \* chapters skipped because their file exists
    fn,                  \* the function or command being exercised
    args,                \* its arguments
    ret,                 \* its locals and return value
    phase,               \* "call" before it ran, "probe" inside a loop, "done"
    playlist             \* entries of the playlist file written, <<>> if none

splitVars == <<chapters, inputFile, format, dryRun, overwrite, dirExists, files, pc,
               audioInfo, diskSpace, result, normalizedChapters, concurrency, i, task,
               chapterFiles, errors, rerun, resuming, files0, dirCreated,
               cutInvoked, tagInvoked, tagWarned, tags, skipped, passed>>
libVars == <<fn, args, ret, phase>>
vars == <<splitVars, libVars, playlist>>

configVars == <<chapters, inputFile, format, dryRun, overwrite>>
ghostVars == <<rerun, resuming, files0>>
loopVars == <<normalizedChapters, concurrency, i, task, chapterFiles, errors>>
effectVars == <<dirExists, files, dirCreated, cutInvoked, tagInvoked, tagWarned, tags, skipped>>

IsAscending(l) ==
    \A k \in 1..(Len(l) - 1) : l[k].startOffsetMs <= l[k + 1].startOffsetMs
IsDescending(l) ==
    \A k \in 1..(Len(l) - 1) : l[k].startOffsetMs >= l[k + 1].startOffsetMs

\* The chapter lists of at most MaxChapters records of the pool that are
\* supplied in ascending or in descending order of start (duplicates allowed).
ChapterLists ==
    {l \in UNION {[1..n -> ChapterPool] : n \in 0..MaxChapters} :
        IsAscending(l) \/ IsDescending(l)}

\* result as constructed at lines 69-75.
NewResult(chs) ==
    [success |-> FALSE, outputFiles |-> <<>>, errors |-> <<>>,
     totalChapters |-> Len(chs), processedChapters |-> 0]

IdleTasks == [n \in 1..MaxChapters |-> "idle"]

Init ==
    /\ chapters \in ChapterLists
    /\ inputFile \in [duration : Durations, size : InputSizes]
    /\ format \in Formats
    /\ dryRun \in BOOLEAN
    /\ overwrite \in BOOLEAN
    /\ dirExists \in BOOLEAN
    /\ files = <<>>
    /\ pc = "checkFFmpeg"
    /\ audioInfo = NoInfo
    /\ diskSpace = Null
    /\ result = NewResult(chapters)
    /\ normalizedChapters = <<>>
    /\ concurrency = 0
    /\ i = 0
    /\ task = IdleTasks
    /\ chapterFiles = <<>>
    /\ errors = <<>>
    /\ rerun = FALSE
    /\ resuming = (~dryRun /\ ~overwrite)
    /\ files0 = <<>>
    /\ dirCreated = FALSE
    /\ cutInvoked = {}
    /\ tagInvoked = {}
    /\ tags = {}
    /\ passed = {}
    /\ tagWarned = {}
    /\ skipped = {}
    /\ fn = "splitAudioByChapters"
    /\ args = <<>>
    /\ ret = <<>>
    /\ phase = "call"
    /\ playlist = <<>>

\* ---- completion of the call
Return(res) == /\ result' = res
               /\ pc' = "returned"

Raise(res) == /\ result' = res
              /\ pc' = "raised"

\* catch block of splitAudioByChapters, lines 140-145.
SplitCatchRethrow(res, e) == [kind |-> "throw", result |-> res]
SplitCatch(res, e) ==
    [kind |-> "return",
     result |-> [res EXCEPT !.errors = Append(@, Msg("fatal", 0, 0))]]

\* catch block of prepareSplitOperation, lines 329-332.
PrepareCatch(e) ==
    [kind |-> "return", success |-> FALSE, errors |-> <<Msg("preparationFailed", 0, 0)>>]

PrepareFailure(errs) == [kind |-> "return", success |-> FALSE, errors |-> errs]

Settle(c) == IF c.kind = "throw" THEN Raise(c.result) ELSE Return(c.result)

\* lines 80-84 for a prepareSplitOperation that did not succeed.
PrepExit(p) ==
    IF p.kind = "throw" THEN Settle(SplitCatch(result, "prepare"))
    ELSE Return([result EXCEPT !.errors = p.errors])

\* FFmpegService.checkFFmpegAvailability, lines 268-272.
CheckFFmpeg ==
    /\ pc = "checkFFmpeg"
    /\ \E r \in {"ok", "missing", "throw"} :
          CASE r = "ok" -> /\ pc' = "validateInput"
                           /\ UNCHANGED result
            [] r = "missing" -> PrepExit(PrepareFailure(<<Msg("ffmpegMissing", 0, 0)>>))
            [] r = "throw" -> PrepExit(PrepareCatch("checkFFmpeg"))
    /\ passed' = IF pc' = "validateInput" THEN passed \cup {"ffmpeg"} ELSE passed
    /\ UNCHANGED <<libVars, playlist>>
    /\ UNCHANGED <<configVars, ghostVars, loopVars, effectVars, audioInfo, diskSpace>>

\* FFmpegService.validateAudioFile(options.inputPath), lines 275-280.
ValidateInput ==
    /\ pc = "validateInput"
    /\ \E r \in {"ok", "throw"} :
          IF r = "ok" THEN /\ pc' = "probe"
                           /\ UNCHANGED result
          ELSE PrepExit(PrepareFailure(<<Msg("inputInvalid", 0, 0)>>))
    /\ passed' = IF pc' = "probe" THEN passed \cup {"input"} ELSE passed
    /\ UNCHANGED <<libVars, playlist>>
    /\ UNCHANGED <<configVars, ghostVars, loopVars, effectVars, audioInfo, diskSpace>>

\* FFmpegService.getAudioInfo, line 283.
GetAudioInfo ==
    /\ pc = "probe"
    /\ \/ /\ audioInfo' = inputFile
          /\ pc' = "validate"
          /\ UNCHANGED result
       \/ /\ PrepExit(PrepareCatch("getAudioInfo"))
          /\ UNCHANGED audioInfo
    /\ UNCHANGED <<libVars, playlist, passed>>
    /\ UNCHANGED <<configVars, ghostVars, loopVars, effectVars, diskSpace>>

\* validateChapters against the probed duration, lines 288-300.
ValidateStep ==
    /\ pc = "validate"
    /\ \E validationResult \in {validateChapters(chapters, audioInfo.duration)} :
          IF ~validationResult.isValid
          THEN PrepExit(PrepareFailure(validationResult.errors))
          ELSE /\ pc' = "mkdir"
               /\ UNCHANGED result
    /\ passed' = IF pc' = "mkdir" THEN passed \cup {"chapters"} ELSE passed
    /\ UNCHANGED <<libVars, playlist>>
    /\ UNCHANGED <<configVars, ghostVars, loopVars, effectVars, audioInfo, diskSpace>>

\* fs.mkdir(config.outputDir, {recursive: true}) unless dry-run, lines 303-311.
EnsureOutputDir ==
    /\ pc = "mkdir"
    /\ IF dryRun
       THEN /\ pc' = "disk"
            /\ UNCHANGED <<result, dirExists, dirCreated>>
       ELSE \/ /\ dirExists' = TRUE
               /\ dirCreated' = (dirCreated \/ ~dirExists)
               /\ pc' = "disk"
               /\ UNCHANGED result
            \/ /\ ~dirExists
               /\ PrepExit(PrepareFailure(<<Msg("mkdirFailed", 0, 0)>>))
               /\ UNCHANGED <<dirExists, dirCreated>>
    /\ UNCHANGED <<libVars, playlist, passed>>
    /\ UNCHANGED <<configVars, ghostVars, loopVars, audioInfo, diskSpace,
                   files, cutInvoked, tagInvoked, tagWarned, tags, skipped>>

\* checkAvailableDiskSpace, line 314 and lines 430-440: bavail * bsize of the
\* directory or of '/', null when neither can be read.
CheckDiskSpace ==
    /\ pc = "disk"
    /\ diskSpace' \in AvailVals \cup {Null}
    /\ pc' = "diskCompare"
    /\ UNCHANGED <<libVars, playlist, passed>>
    /\ UNCHANGED <<configVars, ghostVars, loopVars, effectVars, audioInfo, result>>

\* diskSpace !== null && diskSpace < estimatedSpaceNeeded, line 317.
InsufficientSpaceNever(available, needed) == FALSE
InsufficientSpace(available, needed) == available # Null /\ available < needed

\* The comparison of lines 315-327.
CompareDiskSpace ==
    /\ pc = "diskCompare"
    /\ LET estimatedSpaceNeeded == estimateOutputSize(audioInfo.size, Len(chapters))
       IN IF InsufficientSpace(diskSpace, estimatedSpaceNeeded)
          THEN /\ PrepExit(PrepareFailure(<<Msg("insufficientSpace", diskSpace,
                                                estimatedSpaceNeeded)>>))
               /\ UNCHANGED diskSpace
          ELSE /\ pc' = "plan"
               /\ diskSpace' = Null
               /\ UNCHANGED result
    /\ passed' = IF pc' = "plan" THEN passed \cup {"disk"} ELSE passed
    /\ UNCHANGED <<libVars, playlist>>
    /\ UNCHANGED <<configVars, ghostVars, loopVars, effectVars, audioInfo>>

BatchOf(start, width, total) == (start + 1)..Min2(start + width, total)

OutputPath(n) ==
    generateChapterFileName(BookTitle, n, normalizedChapters[n].title, format)

FileExists(p) == p \in DOMAIN files

WriteFile(fs, p, content) ==
    [q \in (DOMAIN fs) \cup {p} |-> IF q = p THEN content ELSE fs[q]]

\* The object processChapterSplit returns, lines 240-246 and 181-187.
ChapterFile(n) ==
    [chapterNumber |-> n,
     title |-> normalizedChapters[n].title,
     filePath |-> OutputPath(n),
     startTimeMs |-> normalizedChapters[n].startOffsetMs,
     durationMs |-> normalizedChapters[n].lengthMs]

\* Lines 86-96: sort, normalize, compute the batch width.
Plan ==
    /\ pc = "plan"
    /\ IF NormalizeThrows(sortChaptersByStartTime(chapters))
       THEN /\ Settle(SplitCatch(result, "normalize"))
            /\ UNCHANGED <<normalizedChapters, concurrency>>
       ELSE /\ normalizedChapters' = normalizeChapterTitles(sortChaptersByStartTime(chapters))
            /\ \E cpuCount \in 0..MaxCpu, memoryHigh \in BOOLEAN :
                  concurrency' = calculateOptimalConcurrency(cpuCount, memoryHigh)
            /\ pc' = "batch"
            /\ UNCHANGED result
    /\ UNCHANGED <<libVars, playlist, passed>>
    /\ UNCHANGED <<configVars, ghostVars, effectVars, audioInfo, diskSpace,
                   i, task, chapterFiles, errors>>

\* processChapterSplit up to its first await, lines 164-177 and 194-215.
FirstAwaitNoDryRun == IF ~overwrite THEN "access" ELSE "cutting"
FirstAwaitIgnoreOverwrite == "access"
FirstAwait == IF ~overwrite THEN "access"
              ELSE IF dryRun THEN "fulfilled"
              ELSE "cutting"

\* Lines 98-111: start every chapter of the batch.
LaunchBatch ==
    /\ pc = "batch"
    /\ i < Len(normalizedChapters)
    /\ LET batch == BatchOf(i, concurrency, Len(normalizedChapters))
       IN /\ task' = [n \in DOMAIN task |-> IF n \in batch THEN FirstAwait ELSE task[n]]
          /\ cutInvoked' = IF FirstAwait = "cutting" THEN cutInvoked \cup batch
                           ELSE cutInvoked
    /\ pc' = "await"
    /\ UNCHANGED <<libVars, playlist, passed>>
    /\ UNCHANGED <<configVars, ghostVars, audioInfo, diskSpace, result,
                   normalizedChapters, concurrency, i, chapterFiles, errors,
                   dirExists, files, dirCreated, tagInvoked, tagWarned, tags, skipped>>

\* fs.access(outputPath) settles, lines 175-192, then on to the next await.
AccessDone(n) ==
    /\ pc = "await"
    /\ task[n] = "access"
    /\ IF FileExists(OutputPath(n)) /\ ~dryRun   \* lines 177-188
       THEN /\ task' = [task EXCEPT ![n] = "fulfilled"]
            /\ skipped' = skipped \cup {n}
            /\ UNCHANGED cutInvoked
       ELSE IF dryRun
       THEN /\ task' = [task EXCEPT ![n] = "fulfilled"]
            /\ UNCHANGED <<skipped, cutInvoked>>
       ELSE /\ task' = [task EXCEPT ![n] = "cutting"]
            /\ cutInvoked' = cutInvoked \cup {n}
            /\ UNCHANGED skipped
    /\ UNCHANGED <<libVars, playlist, passed>>
    /\ UNCHANGED <<configVars, ghostVars, audioInfo, diskSpace, result, pc,
                   normalizedChapters, concurrency, i, chapterFiles, errors,
                   dirExists, files, dirCreated, tagInvoked, tagWarned, tags>>

\* config.format === 'mp3', line 219.
IsTagCapableAnyFormat(fmt) == TRUE
IsTagCapable(fmt) == fmt = "mp3"

\* The try/catch around addTags, lines 230-235: a throw is logged with
\* console.warn and the chapter goes on to its return.
AfterTagRethrow(tagThrows) == IF tagThrows THEN "rejected" ELSE "fulfilled"
AfterTag(tagThrows) == "fulfilled"

\* FFmpegService.splitAudioByTime settles (ffmpegService.ts 111-178), then
\* lines 216-251: tagging for mp3, return or rethrow.
\*   "ok"          ffmpeg exited 0, the output file is complete
\*   "failEarly"   rejected before ffmpeg touched the output
\*   "failPartial" ffmpeg exited non-zero after opening the output (-y)
CutDone(n) ==
    /\ pc = "await"
    /\ task[n] = "cutting"
    /\ \E outcome \in {"ok", "failEarly", "failPartial"} :
          CASE outcome = "ok" ->
                  /\ files' = WriteFile(files, OutputPath(n), "cut")
                  /\ dirCreated' = (dirCreated \/ ~dirExists)
                  /\ dirExists' = TRUE
                  /\ IF IsTagCapable(format)
                     THEN /\ tagInvoked' = tagInvoked \cup {n}
                          /\ tags' = tags \cup
                                {[metadata |-> createChapterMetadata(normalizedChapters[n], n,
                                                                     Len(chapters)),
                                  filePath |-> OutputPath(n)]}
                          /\ \E tagThrows \in BOOLEAN :
                                /\ tagWarned' = IF tagThrows THEN tagWarned \cup {n}
                                                ELSE tagWarned
                                /\ task' = [task EXCEPT ![n] = AfterTag(tagThrows)]
                     ELSE /\ task' = [task EXCEPT ![n] = "fulfilled"]
                          /\ UNCHANGED <<tagInvoked, tagWarned, tags>>
            [] outcome = "failEarly" ->
                  /\ task' = [task EXCEPT ![n] = "rejected"]
                  /\ UNCHANGED <<files, dirExists, dirCreated, tagInvoked, tagWarned, tags>>
            [] outcome = "failPartial" ->
                  /\ files' = WriteFile(files, OutputPath(n), "partial")
                  /\ dirCreated' = (dirCreated \/ ~dirExists)
                  /\ dirExists' = TRUE
                  /\ task' = [task EXCEPT ![n] = "rejected"]
                  /\ UNCHANGED <<tagInvoked, tagWarned, tags>>
    /\ UNCHANGED <<libVars, playlist, passed>>
    /\ UNCHANGED <<configVars, ghostVars, audioInfo, diskSpace, result, pc,
                   normalizedChapters, concurrency, i, chapterFiles, errors,
                   cutInvoked, skipped>>

\* A promise of the batch has settled (Promise.allSettled, line 111).
SettledNotAwaited(n) == task[n] # "idle"
Settled(n) == task[n] \in {"fulfilled", "rejected"}

\* The error label of line 120: `Chapter ${i + index + 1}: ${reason}`.
ChapterErrorBatchIndex(n) == Msg("chapter", n - i, 0)
ChapterError(n) == Msg("chapter", n, 0)

RECURSIVE SeqOfSet(_)
SeqOfSet(S) ==
    IF S = {} THEN <<>>
    ELSE LET m == CHOOSE x \in S : \A y \in S : x <= y
         IN <<m>> \o SeqOfSet(S \ {m})

\* promiseResult.status === 'fulfilled' && promiseResult.value, line 115.
IsFulfilledOrRejected(n) == TRUE
IsFulfilled(n) == task[n] = "fulfilled"

\* Promise.allSettled resolves; the forEach of lines 113-124.
JoinBatch ==
    /\ pc = "await"
    /\ LET batch == BatchOf(i, concurrency, Len(normalizedChapters))
           done == SeqOfSet({n \in batch : IsFulfilled(n)})
           failed == SeqOfSet({n \in batch : task[n] = "rejected"})
       IN /\ \A n \in batch : Settled(n)
          /\ chapterFiles' = chapterFiles \o [k \in 1..Len(done) |-> ChapterFile(done[k])]
          /\ errors' = errors \o [k \in 1..Len(failed) |-> ChapterError(failed[k])]
          /\ result' = [result EXCEPT !.processedChapters = @ + Len(done)]
    /\ i' = i + concurrency
    /\ pc' = "batch"
    /\ UNCHANGED <<libVars, playlist, passed>>
    /\ UNCHANGED <<configVars, ghostVars, effectVars, audioInfo, diskSpace,
                   normalizedChapters, concurrency, task>>

\* success as computed at line 130.
SuccessOfStale(errs, processed, total) == FALSE
SuccessOf(errs, processed, total) == errs = <<>> /\ processed = total

\* The for loop of line 98 ends: i < normalizedChapters.length is false.
LoopDoneNever(start, total) == FALSE
LoopDone(start, total) == start >= total

\* Lines 127-138.
Aggregate ==
    /\ pc = "batch"
    /\ LoopDone(i, Len(normalizedChapters))
    /\ Return([result EXCEPT
                 !.outputFiles = [k \in 1..Len(chapterFiles) |-> chapterFiles[k].filePath],
                 !.errors = errors,
                 !.success = SuccessOf(errors, result.processedChapters,
                                       result.totalChapters)])
    /\ UNCHANGED <<libVars, playlist, passed>>
    /\ UNCHANGED <<configVars, ghostVars, loopVars, effectVars, audioInfo, diskSpace>>

\* The caller invokes splitAudioByChapters again for the same job.
NewRun ==
    /\ pc \in {"returned", "raised"}
    /\ rerun' = TRUE
    /\ files0' = files
    /\ dryRun' \in BOOLEAN
    /\ overwrite' \in BOOLEAN
    /\ resuming' = (resuming /\ ~dryRun' /\ ~overwrite')
    /\ pc' = "checkFFmpeg"
    /\ audioInfo' = NoInfo
    /\ diskSpace' = Null
    /\ result' = NewResult(chapters)
    /\ normalizedChapters' = <<>>
    /\ concurrency' = 0
    /\ i' = 0
    /\ task' = IdleTasks
    /\ chapterFiles' = <<>>
    /\ errors' = <<>>
    /\ dirCreated' = FALSE
    /\ cutInvoked' = {}
    /\ tagInvoked' = {}
    /\ tags' = {}
    /\ passed' = {}
    /\ tagWarned' = {}
    /\ skipped' = {}
    /\ UNCHANGED <<libVars, playlist>>
    /\ UNCHANGED <<chapters, inputFile, format, dirExists, files>>

Next ==
    \/ CheckFFmpeg
    \/ ValidateInput
    \/ GetAudioInfo
    \/ ValidateStep
    \/ EnsureOutputDir
    \/ CheckDiskSpace
    \/ CompareDiskSpace
    \/ Plan
    \/ LaunchBatch
    \/ \E n \in 1..MaxChapters : AccessDone(n)
    \/ \E n \in 1..MaxChapters : CutDone(n)
    \/ JoinBatch
    \/ Aggregate
    \/ NewRun

Spec == Init /\ [][Next]_vars

\* ---- one call, every collaborator settling
\* A collaborator call settles: the tool check, the input check, the probe,
\* the disk query, fs.access, the cut (with the tagging that follows it).
CollaboratorSettles ==
    \/ CheckFFmpeg
    \/ ValidateInput
    \/ GetAudioInfo
    \/ CheckDiskSpace
    \/ \E n \in 1..MaxChapters : AccessDone(n)
    \/ \E n \in 1..MaxChapters : CutDone(n)

\* The steps splitAudioByChapters takes by itself between the awaits.
ProgramStep ==
    \/ ValidateStep
    \/ EnsureOutputDir
    \/ CompareDiskSpace
    \/ Plan
    \/ LaunchBatch
    \/ JoinBatch
    \/ Aggregate

\* The first call for a job whose chapters are supplied in ascending order.
RunInit ==
    /\ Init
    /\ IsAscending(chapters)

RunNext == CollaboratorSettles \/ ProgramStep

\* One call of splitAudioByChapters in which the event loop runs the program
\* whenever it can and every pending collaborator call settles.
RunSpec ==
    RunInit /\ [][RunNext]_vars /\ WF_vars(ProgramStep) /\ WF_vars(CollaboratorSettles)

TypeOK ==
    /\ pc \in {"checkFFmpeg", "validateInput", "probe", "validate", "mkdir", "disk",
               "diskCompare",               "plan", "batch", "await", "returned", "raised"}
    /\ rerun \in BOOLEAN
    /\ concurrency \in 0..MaxConcurrency


\* ------------------------------------------- the library functions alone
\* splitAudioByChapters is not running.
SplitIdle ==
    /\ chapters = <<>>
    /\ inputFile = NoInfo
    /\ format = "mp3"
    /\ dryRun = TRUE
    /\ overwrite = FALSE
    /\ dirExists = FALSE
    /\ files = <<>>
    /\ pc = "idle"
    /\ audioInfo = NoInfo
    /\ diskSpace = Null
    /\ result = NewResult(<<>>)
    /\ normalizedChapters = <<>>
    /\ concurrency = 0
    /\ i = 0
    /\ task = IdleTasks
    /\ chapterFiles = <<>>
    /\ errors = <<>>
    /\ rerun = FALSE
    /\ resuming = FALSE
    /\ files0 = <<>>
    /\ dirCreated = FALSE
    /\ cutInvoked = {}
    /\ tagInvoked = {}
    /\ tags = {}
    /\ passed = {}
    /\ tagWarned = {}
    /\ skipped = {}

\* ---- chapterValidator: arguments
\* Starts and lengths that give overlaps (50 ms), touching chapters, silences
\* of exactly 1000 ms and of more, and the list [0,100) [100,250) [250,400).
ValStarts == {0, 50, 100, 250, 1100, 1101}
ValLens == {100, 150}
ValTitle == <<"a">>
\* A negative start, a zero length, a chapter of more than four hours.
ValOddChapters ==
    {[title |-> ValTitle, startOffsetMs |-> 0 - 50, lengthMs |-> 100],
     [title |-> ValTitle, startOffsetMs |-> 0, lengthMs |-> 0],
     [title |-> ValTitle, startOffsetMs |-> 0, lengthMs |-> 14400001]}
ValPool ==
    [title : {ValTitle}, startOffsetMs : ValStarts, lengthMs : ValLens]
        \cup ValOddChapters
ValLists == UNION {[1..n -> ValPool] : n \in 0..MaxListLen}
ValTotals == {Null, 400}

ValidatorInit ==
    /\ SplitIdle
    /\ playlist = <<>>
    /\ fn = "chapterValidator"
    /\ args \in [chapters : ValLists, totalDurationMs : ValTotals]
    /\ ret = <<>>
    /\ phase = "call"

CallValidateChapterSequence ==
    /\ phase = "call"
    /\ fn' = "validateChapterSequence"
    /\ ret' = validateChapterSequence(args.chapters)
    /\ phase' = "done"
    /\ UNCHANGED <<args, splitVars, playlist>>

CallValidateChapterTiming ==
    /\ phase = "call"
    /\ fn' = "validateChapterTiming"
    /\ ret' = validateChapterTiming(args.chapters, args.totalDurationMs)
    /\ phase' = "done"
    /\ UNCHANGED <<args, splitVars, playlist>>

CallDetectChapterGaps ==
    /\ phase = "call"
    /\ fn' = "detectChapterGaps"
    /\ ret' = detectChapterGaps(args.chapters)
    /\ phase' = "done"
    /\ UNCHANGED <<args, splitVars, playlist>>

CallValidateChapters ==
    /\ phase = "call"
    /\ fn' = "validateChapters"
    /\ ret' = validateChapters(args.chapters, args.totalDurationMs)
    /\ phase' = "done"
    /\ UNCHANGED <<args, splitVars, playlist>>

ValidatorNext ==
    \/ CallValidateChapterSequence
    \/ CallValidateChapterTiming
    \/ CallDetectChapterGaps
    \/ CallValidateChapters

ValidatorSpec == ValidatorInit /\ [][ValidatorNext]_vars

\* ---- normalizeChapterTitles: arguments
\* A letter, a dot, a space and a forbidden character.
TitleAlphabet == {"a", ".", " ", "<"}
ShortTitles == UNION {[1..n -> TitleAlphabet] : n \in 0..MaxTextLen}
ReservedTitles ==
    {<<"C", "O", "N">>, <<"c", "o", "n">>, <<"C", "O", "N", ".">>, <<"L", "P", "T", "9">>}
\* Titles of MaxTitleLength + 1 characters: all letters; a space where the
\* cut falls.
LongTitles ==
    {[k \in 1..(MaxTitleLength + 1) |-> "a"],
     [k \in 1..(MaxTitleLength + 1) |-> IF k = MaxTitleLength - 3 THEN " " ELSE "a"]}
TitleUniverse == ShortTitles \cup ReservedTitles \cup LongTitles
TitledChapter(t, k) == [title |-> t, startOffsetMs |-> 100 * (k - 1), lengthMs |-> 100]
TitleLists ==
    {[k \in 1..Len(ts) |-> TitledChapter(ts[k], k)] :
        ts \in UNION {[1..n -> TitleUniverse] : n \in 1..2}}

TitleInit ==
    /\ SplitIdle
    /\ playlist = <<>>
    /\ fn = "normalizeChapterTitles"
    /\ args \in [chapters : TitleLists]
    /\ ret = <<>>
    /\ phase = "call"

CallNormalizeChapterTitles ==
    /\ phase = "call"
    /\ ret' = normalizeChapterTitles(args.chapters)
    /\ phase' = "done"
    /\ UNCHANGED <<fn, args, splitVars, playlist>>

\* The returned list is handed to normalizeChapterTitles again.
CallNormalizeChapterTitlesAgain ==
    /\ phase = "done"
    /\ args' = [chapters |-> ret]
    /\ ret' = normalizeChapterTitles(ret)
    /\ phase' = "again"
    /\ UNCHANGED <<fn, splitVars, playlist>>

TitleNext ==
    \/ CallNormalizeChapterTitles
    \/ CallNormalizeChapterTitlesAgain

TitleSpec == TitleInit /\ [][TitleNext]_vars

\* ---- sanitizeFilename: arguments
\* A letter, a dot, a space, a forbidden character, a removed control
\* character and U+007F.
NameAlphabet == {"a", ".", " ", "<", "\t", Delete}
ShortNames == UNION {[1..n -> NameAlphabet] : n \in 0..MaxTextLen}
ReservedNames ==
    {<<"C", "O", "N">>, <<"c", "o", "n">>, <<"C", "O", "N", ".", "a">>,
     <<"C", "O", "M", "1">>, <<"L", "P", "T", "9", ".", "a">>, <<"C", "O", "N", " ", ".">>}
\* A base name longer than the default limit, with an extension.
LongNames == {[k \in 1..(DefaultMaxLength + 3) |-> IF k = DefaultMaxLength + 1 THEN "." ELSE "a"]}
NameUniverse == ShortNames \cup ReservedNames \cup LongNames
MaxLengths == 0..(MaxTextLen + SuffixRoom) \cup {DefaultMaxLength}

SanitizeInit ==
    /\ SplitIdle
    /\ playlist = <<>>
    /\ fn = "sanitizeFilename"
    /\ args \in [filename : NameUniverse, maxLength : MaxLengths]
    /\ ret = <<>>
    /\ phase = "call"

CallSanitizeFilename ==
    /\ phase = "call"
    /\ ret' = sanitizeFilename(args.filename, args.maxLength)
    /\ phase' = "done"
    /\ UNCHANGED <<fn, args, splitVars, playlist>>

SanitizeNext == CallSanitizeFilename

SanitizeSpec == SanitizeInit /\ [][SanitizeNext]_vars

\* ---- generateUniqueFilename: arguments, and the loop of lines 268-279
UniqueNames == {<<"a", ".", "b">>, <<"a">>, <<".", "a">>, <<"a", ".">>}
OtherFile == <<"z">>
\* Directories holding any of the name, its first MaxExisting numbered
\* variants and an unrelated file.
DirsFor(filename) ==
    SUBSET ({NthCandidate(filename, k) : k \in 0..MaxExisting} \cup {OtherFile})

UniqueInit ==
    /\ SplitIdle
    /\ playlist = <<>>
    /\ fn = "generateUniqueFilename"
    /\ \E filename \in UniqueNames :
          \E dir \in DirsFor(filename) :
              /\ args = [baseDir |-> dir, filename |-> filename]
              /\ ret = [counter |-> 1, uniqueFilename |-> filename]
    /\ phase = "probe"

\* The probed file exists: try the next number (lines 272-274).
ProbeTaken ==
    /\ phase = "probe"
    /\ FileInDir(args.baseDir, ret.uniqueFilename)
    /\ ret' = [counter |-> ret.counter + 1,
               uniqueFilename |-> UniqueCandidate(args.filename, ret.counter)]
    /\ UNCHANGED <<fn, args, phase, splitVars, playlist>>

\* fs.access rejects: break and return (lines 275-281).
ProbeFree ==
    /\ phase = "probe"
    /\ ~FileInDir(args.baseDir, ret.uniqueFilename)
    /\ phase' = "done"
    /\ UNCHANGED <<fn, args, ret, splitVars, playlist>>

UniqueNext == ProbeTaken \/ ProbeFree

\* Every fs.access settles.
UniqueSpec == UniqueInit /\ [][UniqueNext]_vars /\ WF_vars(UniqueNext)

\* ---- sortChaptersByStartTime: arguments
\* Records that tie on the start, on start and length, and that differ only
\* in their title.
SortTitles == {<<"a">>, <<"b">>}
SortStarts == {0, 100}
SortLens == {100, 150}
SortPool == [title : SortTitles, startOffsetMs : SortStarts, lengthMs : SortLens]
SortLists == UNION {[1..n -> SortPool] : n \in 0..MaxListLen}

SortInit ==
    /\ SplitIdle
    /\ playlist = <<>>
    /\ fn = "sortChaptersByStartTime"
    /\ args \in [chapters : SortLists]
    /\ ret = <<>>
    /\ phase = "call"

\* [...chapters].sort(...): the copy is sorted, the argument is not assigned.
CallSortChaptersByStartTime ==
    /\ phase = "call"
    /\ ret' = sortChaptersByStartTime(args.chapters)
    /\ args' = args
    /\ phase' = "done"
    /\ UNCHANGED <<fn, splitVars, playlist>>

SortNext == CallSortChaptersByStartTime

SortSpec == SortInit /\ [][SortNext]_vars

\* ------------------------------------------------------ the split command
\* Chapters two seconds apart: 'a' of 100 ms (1 whole second) and 'b' of
\* 1100 ms (2 whole seconds).
CommandKinds == {[title |-> <<"a">>, lengthMs |-> 100], [title |-> <<"b">>, lengthMs |-> 1100]}
CommandStarts == {2000 * k : k \in 0..(MaxChapters - 1)}
CommandPool ==
    {[title |-> kind.title, startOffsetMs |-> start, lengthMs |-> kind.lengthMs] :
        kind \in CommandKinds, start \in CommandStarts}
\* The lists getChaptersInfo may hand over: ascending or descending by start.
CommandChapterLists ==
    {l \in UNION {[1..n -> CommandPool] : n \in 0..MaxChapters} :
        IsAscending(l) \/ IsDescending(l)}

\* The command has parsed its options, fetched the chapters and created the
\* book directory (createOutputDirectory, unless dry-run); it is about to run
\* its own prepareSplitOperation (part_004 lines 937-944) or, with
\* --skip-validation, to call splitAudioByChapters (line 949).
CommandInit ==
    /\ chapters \in CommandChapterLists
    /\ inputFile = [duration |-> 2000 * MaxChapters, size |-> 11]
    /\ format \in Formats
    /\ dryRun \in BOOLEAN
    /\ overwrite \in BOOLEAN
    /\ dirExists = ~dryRun
    /\ files = <<>>
    /\ pc = "checkFFmpeg"
    /\ audioInfo = NoInfo
    /\ diskSpace = Null
    /\ result = NewResult(chapters)
    /\ normalizedChapters = <<>>
    /\ concurrency = 0
    /\ i = 0
    /\ task = IdleTasks
    /\ chapterFiles = <<>>
    /\ errors = <<>>
    /\ rerun = FALSE
    /\ resuming = FALSE
    /\ files0 = <<>>
    /\ dirCreated = FALSE
    /\ cutInvoked = {}
    /\ tagInvoked = {}
    /\ tags = {}
    /\ passed = {}
    /\ tagWarned = {}
    /\ skipped = {}
    /\ fn = "split"
    /\ args \in [noPlaylist : BOOLEAN, skipValidation : BOOLEAN]
    /\ ret = [playlistWritten |-> FALSE, errors |-> <<>>]
    /\ phase = IF args.skipValidation THEN "call" ELSE "preflight"
    /\ playlist = <<>>

\* The command's own prepareSplitOperation succeeded (pc has reached the end
\* of the checks): splitAudioByChapters is called and starts its own checks.
StartSplit ==
    /\ phase = "preflight"
    /\ pc = "plan"
    /\ phase' = "call"
    /\ pc' = "checkFFmpeg"
    /\ audioInfo' = NoInfo
    /\ diskSpace' = Null
    /\ passed' = {}
    /\ UNCHANGED <<fn, args, ret, playlist, configVars, ghostVars, loopVars, result,
                   dirExists, files, dirCreated, cutInvoked, tagInvoked, tagWarned,
                   tags, skipped>>

\* prepResult.success is false, lines 939-943: the errors are printed and the
\* command returns without calling splitAudioByChapters.
PreflightFailed ==
    /\ phase = "preflight"
    /\ pc = "returned"
    /\ phase' = "done"
    /\ UNCHANGED <<fn, args, ret, splitVars, playlist>>

\* Math.ceil(a / b) for a >= 0, b > 0.
CeilDiv(a, b) == (a + b - 1) \div b

\* The chapterFiles the command builds from the result, part_004 lines 956-962:
\* outputFiles[index] paired with chapters[index] of the list as supplied.
CommandChapterFiles(res, chs) ==
    [k \in 1..Len(res.outputFiles) |->
        [chapterNumber |-> k,
         title |-> chs[k].title,
         filePath |-> res.outputFiles[k],
         startTimeMs |-> chs[k].startOffsetMs,
         durationMs |-> chs[k].lengthMs]]

\* [...chapters].sort((a, b) => a.chapterNumber - b.chapterNumber),
\* fileService.ts line 308.
RECURSIVE SortByChapterNumber(_)
SortByChapterNumber(cfs) ==
    IF cfs = <<>> THEN <<>>
    ELSE LET smallest == CHOOSE k \in 1..Len(cfs) :
                             \A j \in 1..Len(cfs) :
                                 \/ cfs[k].chapterNumber < cfs[j].chapterNumber
                                 \/ cfs[k].chapterNumber = cfs[j].chapterNumber /\ k <= j
         IN <<cfs[smallest]>>
                \o SortByChapterNumber([j \in 1..(Len(cfs) - 1) |->
                                           IF j < smallest THEN cfs[j] ELSE cfs[j + 1]])

\* One playlist entry, fileService.ts lines 321-325:
\* `#EXTINF:${durationSeconds},${chapter.title}\n${filename}`.
PlaylistEntry(cf) ==
    [durationSeconds |-> CeilDiv(cf.durationMs, 1000),
     title |-> cf.title,
     filename |-> cf.filePath]

\* The success branch with playlist, part_004 lines 948-985, and
\* organizeChapterFiles, fileService.ts lines 292-368: the playlist is written,
\* or a write fails and is reported in errors.
OrganizeChapterFiles ==
    /\ pc = "returned"
    /\ phase = "call"
    /\ result.success /\ ~args.noPlaylist /\ ~dryRun
    /\ LET cfs == SortByChapterNumber(CommandChapterFiles(result, chapters))
       IN IF cfs = <<>>
          THEN /\ ret' = [playlistWritten |-> FALSE, errors |-> <<Msg("noChaptersToOrganize", 0, 0)>>]
               /\ UNCHANGED playlist
          ELSE \/ /\ playlist' = [k \in 1..Len(cfs) |-> PlaylistEntry(cfs[k])]
                  /\ ret' = [playlistWritten |-> TRUE, errors |-> <<>>]
               \/ /\ ret' = [playlistWritten |-> FALSE, errors |-> <<Msg("organizeFailed", 0, 0)>>]
                  /\ UNCHANGED playlist
    /\ phase' = "done"
    /\ UNCHANGED <<fn, args, splitVars>>

\* The other ends of the command: success without playlist (dry run or
\* --no-playlist), or the error report of lines 986-993.
FinishWithoutPlaylist ==
    /\ pc = "returned"
    /\ phase = "call"
    /\ ~(result.success /\ ~args.noPlaylist /\ ~dryRun)
    /\ phase' = "done"
    /\ UNCHANGED <<fn, args, ret, splitVars, playlist>>

CommandNext ==
    \/ CheckFFmpeg
    \/ ValidateInput
    \/ GetAudioInfo
    \/ ValidateStep
    \/ EnsureOutputDir
    \/ CheckDiskSpace
    \/ CompareDiskSpace
    \/ StartSplit
    \/ PreflightFailed
    \/ (phase = "call" /\ Plan)
    \/ LaunchBatch
    \/ \E n \in 1..MaxChapters : AccessDone(n)
    \/ \E n \in 1..MaxChapters : CutDone(n)
    \/ JoinBatch
    \/ Aggregate
    \/ OrganizeChapterFiles
    \/ FinishWithoutPlaylist

CommandSpec == CommandInit /\ [][CommandNext]_vars

\* ------------------------------------------------------------ properties
N == Len(chapters)
Returned == pc = "returned"
\* The call got past preflight and planning (lines 80-96).
PreflightPassed == concurrency > 0
\* The loop has ended and the result was aggregated (lines 127-138).
Completed == Returned /\ PreflightPassed
Failed == {n \in 1..Len(normalizedChapters) : task[n] = "rejected"}
Paths(S) == [k \in 1..Len(SeqOfSet(S)) |-> OutputPath(SeqOfSet(S)[k])]
NoWrites == /\ ~dirCreated
            /\ cutInvoked = {}
            /\ tagInvoked = {}
            /\ files = files0

\* C1: every SplitResult returned has success = TRUE exactly when errors is
\* empty and processedChapters = totalChapters, on every exit path.
C1_SuccessIffCleanAndComplete ==
    Returned =>
        (result.success <=>
            (result.errors = <<>> /\ result.processedChapters = result.totalChapters))

C1_Witness ==
    /\ Returned
    /\ ~dryRun
    /\ result.success
    /\ result.processedChapters = 2
    /\ cutInvoked = {1, 2}

\* C2 (as stated): in a completed non-dry run with F the chapters whose cut
\* failed, every chapter outside F had its cut invoked, processedChapters =
\* N - |F|, errors has one entry per chapter of F naming its number,
\* outputFiles is the paths of the chapters outside F, success is false when
\* F is non-empty.
C2_FailuresIsolatedAllOthersCut ==
    (Completed /\ ~dryRun) =>
        /\ \A n \in (1..N) \ Failed : n \in cutInvoked /\ files[OutputPath(n)] = "cut"
        /\ result.processedChapters = N - Cardinality(Failed)
        /\ result.errors = [k \in 1..Cardinality(Failed) |-> Msg("chapter", SeqOfSet(Failed)[k], 0)]
        /\ result.outputFiles = Paths((1..N) \ Failed)
        /\ (Failed # {} => ~result.success)

\* C2 (amended): as above, but a chapter outside F is either cut or, when its
\* output file existed and overwrite is false, skipped.
C2_FailuresIsolated ==
    (Completed /\ ~dryRun) =>
        /\ \A n \in (1..N) \ Failed :
              \/ n \in cutInvoked /\ files[OutputPath(n)] = "cut"
              \/ n \in skipped /\ ~overwrite /\ OutputPath(n) \in DOMAIN files0
        /\ result.processedChapters = N - Cardinality(Failed)
        /\ result.errors = [k \in 1..Cardinality(Failed) |-> Msg("chapter", SeqOfSet(Failed)[k], 0)]
        /\ result.outputFiles = Paths((1..N) \ Failed)
        /\ (Failed # {} => ~result.success)

\* Two batches of one chapter; the cut of chapter 1 fails, chapter 2 of the
\* later batch is cut.
C2_Witness ==
    /\ Completed
    /\ ~dryRun
    /\ N = 2
    /\ concurrency = 1
    /\ Failed = {1}
    /\ cutInvoked = {1, 2}
    /\ result.processedChapters = 1
    /\ result.outputFiles = <<OutputPath(2)>>

\* C3: a dry run that passes preflight returns processedChapters = N and the
\* N would-be paths, and at no point of the run is a directory created, a cut
\* invoked, a tag written or a file changed, also when output files exist.
C3_DryRunWritesNothing ==
    dryRun =>
        /\ NoWrites
        /\ skipped = {}
        /\ Completed =>
              /\ result.processedChapters = N
              /\ result.outputFiles = Paths(1..N)
              /\ result.success

C3_Witness ==
    /\ Completed
    /\ dryRun
    /\ N >= 2
    /\ \E n \in 1..N : OutputPath(n) \in DOMAIN files

\* C4: when validateChapters reports an error for the probed duration, the
\* call returns success = FALSE, processedChapters = 0 and exactly the
\* validation errors, with no directory created, no cut and no tag, in
\* dry-run and normal mode alike; with no errors the validation step goes on.
C4_AbortState ==
    (/\ audioInfo # NoInfo
     /\ pc # "validate"
     /\ validateChapters(chapters, audioInfo.duration).errors # <<>>)
    => /\ Returned
       /\ ~result.success
       /\ result.processedChapters = 0
       /\ result.outputFiles = <<>>
       /\ result.errors = validateChapters(chapters, audioInfo.duration).errors
       /\ NoWrites

C4_WarningsGoOn ==
    (/\ pc = "validate"
     /\ validateChapters(chapters, audioInfo.duration).errors = <<>>)
    => pc' = "mkdir"

C4_ValidationErrorsAbortBeforeWrite ==
    [](C4_AbortState) /\ [][C4_WarningsGoOn]_vars

\* Aborted on an overlap although the output directory is missing and the run
\* is not a dry run.
C4_Witness ==
    /\ Returned
    /\ ~dryRun
    /\ ~dirExists
    /\ N >= 2
    /\ \E k \in 1..Len(result.errors) : result.errors[k].kind = "overlap"

\* C5: free space known and below the estimate aborts with an
\* insufficient-space error and leaves neither the output directory nor any
\* chapter file created by the run; otherwise the space check does not abort.
C5_InsufficientSpaceState ==
    (/\ Returned
     /\ diskSpace # Null
     /\ diskSpace < estimateOutputSize(audioInfo.size, N))
    => /\ result.errors =
              <<Msg("insufficientSpace", diskSpace, estimateOutputSize(audioInfo.size, N))>>
       /\ ~result.success
       /\ ~dirCreated
       /\ files = files0

C5_EnoughOrUnknownGoesOn ==
    (/\ pc = "diskCompare"
     /\ (diskSpace = Null \/ diskSpace >= estimateOutputSize(audioInfo.size, N)))
    => pc' = "plan"

C5_InsufficientSpaceZeroOutput ==
    [](C5_InsufficientSpaceState) /\ [][C5_EnoughOrUnknownGoesOn]_vars

\* C6: splitAudioByChapters never raises; a failure of a collaborator ends in
\* a returned SplitResult whose errors list names it.
C6_NeverRaises ==
    /\ pc # "raised"
    /\ (Returned /\ ~result.success) => result.errors # <<>>
    /\ (Completed /\ Failed # {}) => Len(result.errors) = Cardinality(Failed)

\* A throw outside prepareSplitOperation was caught and reported.
C6_Witness ==
    /\ Returned
    /\ \E k \in 1..Len(result.errors) : result.errors[k].kind = "fatal"

\* C7: a chapter of a later batch is started (existing-file check or cut)
\* only when every chapter of every earlier batch has settled.
C7_BatchesSequential ==
    \A n \in 1..Len(normalizedChapters), m \in 1..Len(normalizedChapters) :
        (/\ task[n] # "idle"
         /\ (m - 1) \div concurrency < (n - 1) \div concurrency)
        => task[m] \in {"fulfilled", "rejected"}

C7_Witness ==
    /\ concurrency = 1
    /\ N = 2
    /\ task[2] = "cutting"
    /\ task[1] = "rejected"

\* C8: the batch width is between 1 and 4 for every CPU count and memory
\* state, and the number of cuts in flight never exceeds it.
C8_WidthBounded ==
    /\ PreflightPassed => concurrency \in 1..4
    /\ Cardinality({n \in 1..MaxChapters : task[n] = "cutting"}) <= concurrency
    /\ \A cpuCount \in 0..MaxCpu, memoryHigh \in BOOLEAN :
          calculateOptimalConcurrency(cpuCount, memoryHigh) \in 1..4

C8_Witness ==
    /\ concurrency = 2
    /\ Cardinality({n \in 1..MaxChapters : task[n] = "cutting"}) = 2
    /\ N = 2

CutFiles(fs) == {n \in 1..Len(normalizedChapters) :
                    OutputPath(n) \in DOMAIN fs /\ fs[OutputPath(n)] = "cut"}

\* C9: in a completed later run of a series of non-dry runs with overwrite =
\* FALSE, the chapters cut are exactly those without a successfully cut file,
\* the others are skipped, a chapter is reported processed only with a
\* successfully cut file, and when every chapter has one (the earlier run
\* succeeded fully) nothing is cut and the result is success with all paths.
C9_Resumable ==
    (/\ Completed
     /\ rerun
     /\ resuming)
    => /\ cutInvoked = (1..N) \ CutFiles(files0)
       /\ skipped = CutFiles(files0)
       /\ \A k \in 1..Len(result.outputFiles) :
             /\ result.outputFiles[k] \in DOMAIN files
             /\ files[result.outputFiles[k]] = "cut"
       /\ CutFiles(files0) = 1..N =>
             /\ cutInvoked = {}
             /\ result.success
             /\ result.outputFiles = Paths(1..N)

\* C10: in a non-dry run with overwrite = FALSE a chapter whose file exists is
\* skipped: no cut, no tag, file unchanged, counted and listed in outputFiles;
\* with overwrite = TRUE the cut is invoked for every started chapter.
C10_ExistingFileSkipped ==
    ~dryRun =>
        /\ \A n \in 1..Len(normalizedChapters) :
              /\ (/\ ~overwrite
                  /\ task[n] \notin {"idle", "access"}
                  /\ OutputPath(n) \in DOMAIN files0)
                 => /\ n \in skipped
                    /\ n \notin cutInvoked
                    /\ n \notin tagInvoked
                    /\ task[n] = "fulfilled"
                    /\ files[OutputPath(n)] = files0[OutputPath(n)]
              /\ (overwrite /\ task[n] # "idle") => n \in cutInvoked
              /\ n \in skipped => (~overwrite /\ OutputPath(n) \in DOMAIN files0)
        /\ Completed =>
              /\ \A n \in skipped :
                    \E k \in 1..Len(result.outputFiles) :
                        result.outputFiles[k] = OutputPath(n)
              /\ result.processedChapters = Len(result.outputFiles)

C10_Witness ==
    /\ Completed
    /\ ~dryRun /\ ~overwrite
    /\ skipped = {2}
    /\ cutInvoked = {1}
    /\ result.processedChapters = 2

\* C11: a chapter whose cut succeeded and whose tagging threw is fulfilled,
\* not failed; in the completed run it is counted in processedChapters, its
\* path is in outputFiles and no error names it; a completed run in which no
\* cut failed returns success = TRUE whatever the tagging did.
C11_TagFailureIsWarning ==
    /\ \A n \in tagWarned :
          /\ task[n] = "fulfilled"
          /\ files[OutputPath(n)] = "cut"
    /\ Completed =>
          /\ \A n \in tagWarned :
                /\ \E k \in 1..Len(result.outputFiles) :
                      result.outputFiles[k] = OutputPath(n)
                /\ \A k \in 1..Len(result.errors) : result.errors[k].chapter # n
          /\ result.processedChapters = N - Cardinality(Failed)
          /\ Failed = {} => (result.success /\ result.errors = <<>>)

\* Every chapter was cut and the tagging of every chapter threw.
C11_Witness ==
    /\ Completed
    /\ N = 2
    /\ tagWarned = {1, 2}
    /\ result.success
    /\ result.processedChapters = 2

\* ---- properties of the validator functions
Done(f) == phase = "done" /\ fn = f
\* The list as the validators look at it: stably sorted by start.
Sorted == SortByStart(args.chapters)
EndOf(c) == c.startOffsetMs + c.lengthMs
OfKind(msgs, kinds) == SelectSeq(msgs, LAMBDA m : m.kind \in kinds)
\* Adjacent pairs (i, i+1) of the sorted list that overlap.
OverlapPairs ==
    {k \in 1..(Len(Sorted) - 1) : EndOf(Sorted[k]) > Sorted[k + 1].startOffsetMs}
\* Adjacent pairs of the sorted list separated by more than 1000 ms.
GapPairs ==
    {k \in 1..(Len(Sorted) - 1) : Sorted[k + 1].startOffsetMs - EndOf(Sorted[k]) > 1000}
RECURSIVE SumSilence(_)
SumSilence(S) ==
    IF S = {} THEN 0
    ELSE LET k == CHOOSE x \in S : TRUE
         IN (Sorted[k + 1].startOffsetMs - EndOf(Sorted[k])) + SumSilence(S \ {k})

\* C12: validateChapterSequence reports one overlap error for each adjacent
\* pair i, i+1 of the start-sorted list with start[i]+len[i] > start[i+1],
\* and for no other pair; the error states start[i]+len[i]-start[i+1]; a list
\* with such a pair is invalid.
C12_OverlapIffEndAfterNextStart ==
    Done("validateChapterSequence") =>
        LET overlaps == OfKind(ret.errors, {"overlap"})
        IN /\ Len(overlaps) = Cardinality(OverlapPairs)
           /\ \A k \in OverlapPairs :
                 \E j \in 1..Len(overlaps) :
                     /\ overlaps[j].chapter = k
                     /\ overlaps[j].ms = EndOf(Sorted[k]) - Sorted[k + 1].startOffsetMs
           /\ \A j \in 1..Len(overlaps) : overlaps[j].chapter \in OverlapPairs
           /\ OverlapPairs # {} => ~ret.isValid

\* Chapters [0,100) and [50,150): one overlap error of 50 ms.
C12_Witness ==
    /\ Done("validateChapterSequence")
    /\ args.chapters = <<[title |-> ValTitle, startOffsetMs |-> 0, lengthMs |-> 100],
                         [title |-> ValTitle, startOffsetMs |-> 50, lengthMs |-> 100]>>
    /\ ~ret.isValid
    /\ ret.errors = <<Msg("overlap", 1, 50)>>

\* C13: detectChapterGaps reports a gap after chapter i of the sorted list
\* exactly when start[i+1] - (start[i]+len[i]) > 1000; each gap carries that
\* difference, totalGapDurationMs is their sum, hasGaps says whether any.
C13_GapIffSilenceOverTolerance ==
    Done("detectChapterGaps") =>
        /\ Len(ret.gaps) = Cardinality(GapPairs)
        /\ \A k \in GapPairs :
              \E j \in 1..Len(ret.gaps) :
                  /\ ret.gaps[j].chapterIndex = k - 1
                  /\ ret.gaps[j].gapDurationMs =
                         Sorted[k + 1].startOffsetMs - EndOf(Sorted[k])
                  /\ ret.gaps[j].gapStartMs = EndOf(Sorted[k])
                  /\ ret.gaps[j].gapEndMs = Sorted[k + 1].startOffsetMs
        /\ \A j \in 1..Len(ret.gaps) : ret.gaps[j].chapterIndex + 1 \in GapPairs
        /\ ret.totalGapDurationMs = SumSilence(GapPairs)
        /\ ret.hasGaps <=> (ret.gaps # <<>>)

\* Two chapters given out of order with a silence of 1001 ms between them.
C13_Witness ==
    /\ Done("detectChapterGaps")
    /\ args.chapters = <<[title |-> ValTitle, startOffsetMs |-> 1101, lengthMs |-> 150],
                         [title |-> ValTitle, startOffsetMs |-> 0, lengthMs |-> 100]>>
    /\ ret.hasGaps
    /\ Len(ret.gaps) = 1
    /\ ret.gaps[1].gapDurationMs = 1001
    /\ ret.totalGapDurationMs = 1001

\* C14: validateChapters returns isValid = FALSE exactly when the list is
\* empty, or a chapter has a negative start or a non-positive length, or two
\* adjacent chapters of the sorted list overlap, or (total duration given) a
\* chapter ends after totalDurationMs; isValid is FALSE exactly when errors
\* is non-empty, so warnings alone never make a list invalid.
C14_InvalidIffError ==
    Done("validateChapters") =>
        LET chs == args.chapters
            total == args.totalDurationMs
            cause == \/ chs = <<>>
                     \/ \E k \in 1..Len(chs) : chs[k].startOffsetMs < 0
                     \/ \E k \in 1..Len(chs) : chs[k].lengthMs <= 0
                     \/ OverlapPairs # {}
                     \/ total # Null /\ \E k \in 1..Len(chs) : EndOf(chs[k]) > total
        IN /\ ~ret.isValid <=> cause
           /\ ~ret.isValid <=> (ret.errors # <<>>)

\* A valid list with out-of-order, short-chapter and gap warnings.
C14_Witness ==
    /\ Done("validateChapters")
    /\ ret.isValid
    /\ ret.errors = <<>>
    /\ \A kind \in {"notChronological", "veryShort", "gap"} :
          OfKind(ret.warnings, {kind}) # <<>>

\* C18: chapters given in ascending order, each starting where the previous
\* one ends, with non-negative starts and positive lengths, the last ending at
\* totalDurationMs: validateChapters returns isValid = TRUE, no errors and no
\* gap warnings.
C18_ContiguousListIsValid ==
    LET chs == args.chapters
    IN (/\ Done("validateChapters")
        /\ chs # <<>>
        /\ args.totalDurationMs # Null
        /\ \A k \in 1..Len(chs) : chs[k].startOffsetMs >= 0 /\ chs[k].lengthMs > 0
        /\ \A k \in 1..(Len(chs) - 1) : EndOf(chs[k]) = chs[k + 1].startOffsetMs
        /\ EndOf(chs[Len(chs)]) = args.totalDurationMs)
       => /\ ret.isValid
          /\ ret.errors = <<>>
          /\ OfKind(ret.warnings, {"gap", "totalGap"}) = <<>>

\* [0,100) [100,250) [250,400) with totalDurationMs = 400.
C18_Witness ==
    /\ Done("validateChapters")
    /\ args.totalDurationMs = 400
    /\ args.chapters = <<[title |-> ValTitle, startOffsetMs |-> 0, lengthMs |-> 100],
                         [title |-> ValTitle, startOffsetMs |-> 100, lengthMs |-> 150],
                         [title |-> ValTitle, startOffsetMs |-> 250, lengthMs |-> 150]>>
    /\ ret.isValid
    /\ ret.errors = <<>>

\* C19: for the empty list, with or without a total duration, validateChapters
\* returns isValid = FALSE, a non-empty errors list made only of the two
\* 'no chapters' errors, and no warnings.
C19_EmptyListIsExplicitError ==
    (Done("validateChapters") /\ args.chapters = <<>>)
    => /\ ~ret.isValid
       /\ ret.errors # <<>>
       /\ \A k \in 1..Len(ret.errors) :
             ret.errors[k].kind \in {"noChapters", "noChaptersTiming"}
       /\ ret.warnings = <<>>

C19_Witness ==
    /\ Done("validateChapters")
    /\ args.chapters = <<>>
    /\ args.totalDurationMs = 400
    /\ ret.errors = <<Msg("noChapters", 0, 0), Msg("noChaptersTiming", 0, 0)>>

\* ---- properties of the naming functions
\* C15: normalizeChapterTitles applied to its own result returns it unchanged.
C15_NormalizeIdempotent ==
    (fn = "normalizeChapterTitles" /\ phase = "again") => ret = args.chapters

\* C16: for every text and every maxLength n, sanitizeFilename returns at most
\* n characters, none of them forbidden and none a control character.
C16_SanitizeBoundedAndClean ==
    Done("sanitizeFilename") =>
        /\ Len(ret) <= args.maxLength
        /\ \A k \in 1..Len(ret) : ret[k] \notin ForbiddenChars \cup ControlChars

\* C17: generateUniqueFilename probes the name, then 'base (1)ext',
\* 'base (2)ext', ... in that order; the name it returns is the first of these
\* for which the directory holds no file, so it is never the name of a file
\* in the directory; and for a directory of finitely many files it returns.
C17_ReturnsFirstFree ==
    Done("generateUniqueFilename") =>
        /\ ret.uniqueFilename \notin args.baseDir
        /\ \E k \in 0..(MaxExisting + 1) :
              /\ ret.uniqueFilename = NthCandidate(args.filename, k)
              /\ \A j \in 0..(k - 1) : NthCandidate(args.filename, j) \in args.baseDir

C17_ProbesInOrder ==
    (fn = "generateUniqueFilename" /\ ret' # ret)
    => /\ ret.uniqueFilename = NthCandidate(args.filename, ret.counter - 1)
       /\ ret'.uniqueFilename = NthCandidate(args.filename, ret.counter)
       /\ ret'.counter = ret.counter + 1

C17_UniqueFilenameFree ==
    /\ [](C17_ReturnsFirstFree)
    /\ [][C17_ProbesInOrder]_vars
    /\ <>(phase = "done")

\* 'a.b' and 'a (1).b' exist, 'a (2).b' does not and is returned although
\* 'a (3).b' exists too.
C17_Witness ==
    /\ Done("generateUniqueFilename")
    /\ args.filename = <<"a", ".", "b">>
    /\ args.baseDir = {<<"a", ".", "b">>, <<"a", " ", "(", "1", ")", ".", "b">>,
                       <<"a", " ", "(", "3", ")", ".", "b">>}
    /\ ret.uniqueFilename = <<"a", " ", "(", "2", ")", ".", "b">>

\* ---- properties of the split command
\* C20: the playlist written after a successful non-dry-run split has one
\* entry per output file, in ascending canonical chapter number, and entry k
\* names the file of chapter k and carries that chapter's title (as supplied
\* or normalized) and its length in whole seconds, in whatever order the
\* chapters were supplied.
C20_PlaylistMatchesFiles ==
    (fn = "split" /\ phase = "done" /\ ret.playlistWritten) =>
        /\ Len(playlist) = Len(result.outputFiles)
        /\ \A k \in 1..Len(playlist) :
              /\ playlist[k].filename = OutputPath(k)
              /\ playlist[k].filename = result.outputFiles[k]
              /\ playlist[k].title \in {sortChaptersByStartTime(chapters)[k].title,
                                         normalizedChapters[k].title}
              /\ playlist[k].durationSeconds =
                     CeilDiv(normalizedChapters[k].lengthMs, 1000)

C23_ReturnsStableSortedPermutation ==
    Done("sortChaptersByStartTime") =>
        /\ Len(ret) = Len(args.chapters)
        /\ \E p \in Permutations(1..Len(ret)) :
              /\ \A k \in 1..Len(ret) : ret[k] = args.chapters[p[k]]
              /\ \A k \in 1..Len(ret), j \in 1..Len(ret) :
                    k < j =>
                        \/ ret[k].startOffsetMs < ret[j].startOffsetMs
                        \/ /\ ret[k].startOffsetMs = ret[j].startOffsetMs
                           /\ ret[k].lengthMs < ret[j].lengthMs
                        \/ /\ ret[k].startOffsetMs = ret[j].startOffsetMs
                           /\ ret[k].lengthMs = ret[j].lengthMs
                           /\ p[k] < p[j]

C23_InputUnchanged == fn = "sortChaptersByStartTime" => args' = args

C23_SortIsStablePermutation ==
    [](C23_ReturnsStableSortedPermutation) /\ [][C23_InputUnchanged]_vars

\* Two records equal in both keys (titles b, a) supplied before an earlier,
\* longer one; and a longer record supplied before a shorter one of the same
\* start.
C23_Witness ==
    /\ Done("sortChaptersByStartTime")
    /\ Len(ret) = 3
    /\ args.chapters[1] = [title |-> <<"b">>, startOffsetMs |-> 100, lengthMs |-> 150]
    /\ args.chapters[2] = [title |-> <<"a">>, startOffsetMs |-> 100, lengthMs |-> 150]
    /\ args.chapters[3] = [title |-> <<"a">>, startOffsetMs |-> 100, lengthMs |-> 100]
    /\ ret = <<args.chapters[3], args.chapters[1], args.chapters[2]>>

\* ---- titles are never empty
\* C24: every title normalizeChapterTitles returns is non-empty, and a title
\* of which removing forbidden characters, collapsing whitespace and trimming
\* edge dots and spaces leaves nothing comes back as 'Chapter N', N the
\* 1-based position of the chapter.
C24_TitlesNonEmpty ==
    (fn = "normalizeChapterTitles" /\ phase = "done") =>
        \A k \in 1..Len(ret) :
            /\ ret[k].title # <<>>
            /\ StripTrailing(StripLeading(
                    CollapseWhitespace(RemoveForbidden(args.chapters[k].title)),
                    DotOrSpace), DotOrSpace) = <<>>
               => ret[k].title = ChapterWord \o <<" ">> \o ToChars(k)

\* ---- reserved device names
\* C25: for every input, with or without an extension, the base name (the
\* part before the extension) of the name sanitizeFilename returns is not a
\* reserved device name, compared case-insensitively; stated here for the
\* default maxLength, where no truncation interferes.
C25_BaseNameNotReserved ==
    (Done("sanitizeFilename") /\ args.maxLength = DefaultMaxLength) =>
        ~IsReservedName(StripExtension(ret))

\* ---- distinct output paths
\* Titles equal, different, of more than 100 characters and equal or
\* different within the first 100, and titles that look like a number field.
PathTitles ==
    {<<"a">>, <<"b">>, <<"0", "0", "2", " ", "-", " ", "a">>,
     [k \in 1..101 |-> "a"],
     [k \in 1..101 |-> IF k = 101 THEN "b" ELSE "a"],
     [k \in 1..101 |-> IF k = 100 THEN "b" ELSE "a"]}

\* Chapter numbers of one to four digits.
PathNumbers == {1, 2, 10, 100, 1000}

\* C26: within one run any two different chapters have different output
\* paths, whatever their titles (equal, or equal after truncation to 100
\* characters), so two cuts in flight never write the same file.
C26_DistinctOutputPaths ==
    /\ \A n \in 1..Len(normalizedChapters), m \in 1..Len(normalizedChapters) :
          n # m => FileNameString(OutputPath(n)) # FileNameString(OutputPath(m))
    /\ pc = "plan" =>
          \A n \in PathNumbers, m \in PathNumbers :
              \A t \in PathTitles, u \in PathTitles :
                  n < m =>
                      FileNameString(generateChapterFileName(BookTitle, n, t, format))
                          # FileNameString(generateChapterFileName(BookTitle, m, u, format))

\* Two chapters of equal title being cut at the same time.
C26_Witness ==
    /\ N = 2
    /\ task[1] = "cutting"
    /\ task[2] = "cutting"
    /\ normalizedChapters[1].title = normalizedChapters[2].title
    /\ OutputPath(1) # OutputPath(2)

\* ---- tagging
\* C27: addTags is invoked for a chapter only once its cut has completed
\* successfully, only in a non-dry run and only for mp3; never for a skipped
\* chapter, for a chapter whose cut failed, or before the cut has settled.
C27_TaggedState ==
    \A n \in tagInvoked :
        /\ ~dryRun
        /\ format = "mp3"
        /\ n \in cutInvoked
        /\ n \notin skipped
        /\ task[n] = "fulfilled"
        /\ files[OutputPath(n)] = "cut"

\* The step that invokes addTags for n is the one in which the cut of n settles.
C27_TaggedAtCutCompletion ==
    \A n \in 1..MaxChapters :
        (n \notin tagInvoked /\ n \in tagInvoked') =>
            /\ task[n] = "cutting"
            /\ task'[n] = "fulfilled"
            /\ files'[OutputPath(n)] = "cut"

C27_TagOnlyAfterSuccessfulCut ==
    [](C27_TaggedState) /\ [][C27_TaggedAtCutCompletion]_vars

\* A later run: chapter 1 is skipped (its file exists) and not tagged,
\* chapter 2 is cut and tagged.
C27_Witness ==
    /\ Completed
    /\ rerun
    /\ format = "mp3"
    /\ skipped = {1}
    /\ cutInvoked = {2}
    /\ tagInvoked = {2}

\* ---- accounting of the chapters in the result
\* The call got past prepareSplitOperation: it planned, or planning threw.
PreflightOk == PreflightPassed \/ (Returned /\ OfKind(result.errors, {"fatal"}) # <<>>)
\* The chapters whose promise was fulfilled.
Fulfilled == {n \in 1..Len(normalizedChapters) : task[n] = "fulfilled"}

\* C29 (as stated): in every returned result, when preflight passed,
\* processedChapters + the number of errors = totalChapters and outputFiles
\* has processedChapters paths in ascending chapter number; when preflight
\* failed, processedChapters = 0 and outputFiles is empty; at all times
\* 0 <= processedChapters <= totalChapters.
C29_AccountedExactlyOnceAfterPreflight ==
    /\ result.processedChapters \in 0..result.totalChapters
    /\ result.totalChapters = N
    /\ (Returned /\ PreflightOk) =>
          /\ result.processedChapters + Len(result.errors) = result.totalChapters
          /\ Len(result.outputFiles) = result.processedChapters
          /\ result.outputFiles = Paths(Fulfilled)
    /\ (Returned /\ ~PreflightOk) =>
          /\ result.processedChapters = 0
          /\ result.outputFiles = <<>>

\* C29 (amended): the accounting holds for a result returned after the batch
\* loop; a result returned because sorting or normalizing threw after
\* preflight has processedChapters = 0, no outputFiles and the one fatal
\* error, like a result of a failed preflight apart from the error.
C29_AccountedExactlyOnce ==
    /\ result.processedChapters \in 0..result.totalChapters
    /\ result.totalChapters = N
    /\ Completed =>
          /\ result.processedChapters + Len(result.errors) = result.totalChapters
          /\ Len(result.outputFiles) = result.processedChapters
          /\ result.outputFiles = Paths(Fulfilled)
    /\ (Returned /\ ~PreflightPassed) =>
          /\ result.processedChapters = 0
          /\ result.outputFiles = <<>>
          /\ PreflightOk => result.errors = <<Msg("fatal", 0, 0)>>

\* One batch of two: the cut of chapter 1 failed, chapter 2 is accounted as
\* processed.
C29_Witness ==
    /\ Completed
    /\ ~dryRun
    /\ concurrency = 2
    /\ result.totalChapters = 2
    /\ result.processedChapters = 1
    /\ Len(result.errors) = 1
    /\ result.outputFiles = <<OutputPath(2)>>

\* ---- preflight before any cut
AllChecks == {"ffmpeg", "input", "chapters", "disk"}

\* C30: a cut is invoked only after the tool check, the input-file check,
\* validateChapters against the probed duration and the disk-space check have
\* all passed within the same call of splitAudioByChapters, also when the
\* command was started with --skip-validation.
C30_ChecksBehindCuts ==
    /\ cutInvoked # {} =>
          /\ passed = AllChecks
          /\ phase # "preflight"
    /\ "chapters" \in passed =>
          /\ audioInfo = inputFile
          /\ SequenceValid(SortByStart(chapters))
          /\ TimingValid(SortByStart(chapters), inputFile.duration)
          /\ chapters # <<>>
    /\ passed # {} => "ffmpeg" \in passed
    /\ "chapters" \in passed => "input" \in passed
    /\ "disk" \in passed => "chapters" \in passed

\* A cut is invoked, and the disk check passes, only in these steps.
C30_CutStep ==
    /\ cutInvoked' # cutInvoked =>
          (cutInvoked' = {} \/ (passed = AllChecks /\ passed' = passed))
    /\ ("disk" \notin passed /\ "disk" \in passed') =>
          (diskSpace = Null \/ diskSpace >= estimateOutputSize(audioInfo.size, N))
    /\ (fn = "split" /\ phase = "preflight" /\ phase' = "call") => passed' = {}

C30_PreflightBeforeAnyCut == [](C30_ChecksBehindCuts) /\ [][C30_CutStep]_vars

\* The command run with --skip-validation: cuts were invoked after the
\* checks of splitAudioByChapters itself.
C30_Witness ==
    /\ fn = "split"
    /\ args.skipValidation
    /\ cutInvoked = {1, 2}
    /\ passed = AllChecks

\* ---- termination
\* The chapters of batches after the current one.
LaterBatches == {m \in 1..Len(normalizedChapters) : m > i + concurrency}

\* While a cut of the current batch has not settled, the batch is not joined:
\* the loop does not advance, nothing is added to the result and no chapter
\* of a later batch is started.
C28_PendingCutHoldsBatch ==
    (\E n \in 1..MaxChapters : task[n] = "cutting") =>
        /\ pc' = "await"
        /\ i' = i
        /\ result' = result
        /\ \A m \in LaterBatches : task[m] = "idle" /\ task'[m] = "idle"

\* When the call has returned after the loop, every chapter has settled.
C28_AllSettledAtReturn ==
    Completed => \A n \in 1..N : task[n] \in {"fulfilled", "rejected"}

\* C28: if every collaborator call eventually settles the call eventually
\* returns, with every chapter of every batch settled; there is no timeout:
\* a cut that has not settled keeps its batch from completing and every
\* chapter of a later batch from starting.
C28_ReturnsWhenCollaboratorsSettle ==
    /\ <>Returned
    /\ [](C28_AllSettledAtReturn)
    /\ [][C28_PendingCutHoldsBatch]_vars

\* Two batches of one chapter: the cut of chapter 1 is pending and chapter 2
\* has not been started.
C28_Witness ==
    /\ N = 2
    /\ concurrency = 1
    /\ i = 0
    /\ task[1] = "cutting"
    /\ task[2] = "idle"

\* ----------------------------------------------------- the process command
\* Runs of processCommand over the files of ./input, sharing the processed
\* log output/processed_files.json.  args holds the flags of the current run;
\* ret holds the log file, the locals of processCommand and the unawaited
\* markFileProcessed calls.
InputDir == <<".", "/", "i", "n", "p", "u", "t">>
OutputDir == <<".", "/", "o", "u", "t", "p", "u", "t">>
\* getAudioFiles(inputDir): the directory listing, bare file names.
AudioFiles == <<<<"a", ".", "m", "p", "3">>, <<"b", ".", "m", "p", "3">>>>

\* path.join(dir, file) of a relative directory and a bare name: the joined
\* path is normalized, which drops a leading './'.
PathJoin(dir, file) ==
    LET d == IF Len(dir) >= 2 /\ dir[1] = "." /\ dir[2] = "/"
             THEN SubSeq(dir, 3, Len(dir)) ELSE dir
    IN d \o <<"/">> \o file

\* path.basename(p): what follows the last separator.
PathBasename(p) ==
    LET seps == {k \in 1..Len(p) : p[k] = "/"}
    IN IF seps = {} THEN p
       ELSE SubSeq(p, (CHOOSE k \in seps : \A j \in seps : j <= k) + 1, Len(p))

\* A ProcessedLog is a function from the keys of processedFiles to the
\* success flag of the entry.
EmptyLog == [k \in {} |-> FALSE]

\* log.processedFiles[filename]?.success === true, fileService.ts line 16 and
\* index.ts lines 78, 88.
LogSuccess(log, filename) == filename \in DOMAIN log /\ log[filename]

\* log.processedFiles[filename] = {..., success}, fileService.ts lines 34-39.
LogPut(log, filename, success) ==
    [k \in DOMAIN log \cup {filename} |-> IF k = filename THEN success ELSE log[k]]

\* The key processFile hands to markFileProcessed: originalFilePath, which
\* processCommand computed as path.join(inputDir, file) (index.ts line 94,
\* part_004 lines 318-326).
RecordedKey(file) == PathJoin(InputDir, file)

\* The key of processFile's own check: path.basename(filePath) of the copy
\* in the output directory (part_004 lines 173-177, index.ts line 95).
CheckedKey(file) == PathBasename(PathJoin(OutputDir, file))

\* The log file when the first run starts: absent (read as the empty log,
\* fileService.ts lines 54-57) or holding an entry that was recorded under
\* the bare name of the second file.
InitialLogs == {EmptyLog, [k \in {AudioFiles[2]} |-> TRUE]}

ProcessInit ==
    /\ SplitIdle
    /\ playlist = <<>>
    /\ fn = "processCommand"
    /\ args = [processAll |-> FALSE, dryRunMode |-> FALSE]
    /\ ret \in
           [processedFiles : InitialLogs,   \* content of the log file
            log : {EmptyLog},               \* the log read at index.ts line 76
            alreadyProcessed : {0},         \* index.ts lines 77-79
            i : {0},                        \* the loop variable
            marks : {{}},                   \* markFileProcessed calls in flight
            run : {0},                      \* number of runs started
            finished : {{}},                \* files marked successful by an earlier run
            handled : {{}},                 \* files this run gave to the pipeline
            passedOver : {{}}]              \* files this run skipped
    /\ phase = "idle"

\* processCommand up to the loop (index.ts lines 46-82): the flags are read,
\* the log is read once and the already processed files are counted.
StartRun ==
    /\ phase = "idle"
    /\ ret.run < MaxRuns
    /\ ret.marks = {}
    /\ \E processAll \in BOOLEAN, dryRunMode \in BOOLEAN :
          args' = [processAll |-> processAll, dryRunMode |-> dryRunMode]
    /\ ret' = [ret EXCEPT
                 !.log = ret.processedFiles,
                 !.alreadyProcessed =
                     Cardinality({k \in 1..Len(AudioFiles) :
                                     LogSuccess(ret.processedFiles, AudioFiles[k])}),
                 !.i = 0,
                 !.run = ret.run + 1,
                 !.finished = {f \in {AudioFiles[k] : k \in 1..Len(AudioFiles)} :
                                  \E k \in DOMAIN ret.processedFiles :
                                      ret.processedFiles[k] /\ k = RecordedKey(f)},
                 !.handled = {},
                 !.passedOver = {}]
    /\ phase' = "loop"
    /\ UNCHANGED <<fn, splitVars, playlist>>

\* The continue of index.ts lines 88-92.
SkipFile ==
    /\ phase = "loop"
    /\ ret.i < Len(AudioFiles)
    /\ LogSuccess(ret.log, AudioFiles[ret.i + 1])
    /\ ~args.processAll
    /\ ret' = [ret EXCEPT !.i = ret.i + 1,
                          !.passedOver = ret.passedOver \cup {AudioFiles[ret.i + 1]}]
    /\ UNCHANGED <<fn, args, phase, splitVars, playlist>>

\* One iteration that reaches processFile (index.ts lines 94-109, part_004
\* lines 165-327).  processFile returns at once when its own check finds the
\* file in the log; otherwise the pipeline runs, ends with success or not
\* (search, user and network decide) and the finally block calls
\* markFileProcessed through run(), unawaited and not at all in a dry run.
ProcessFile ==
    /\ phase = "loop"
    /\ ret.i < Len(AudioFiles)
    /\ ~(LogSuccess(ret.log, AudioFiles[ret.i + 1]) /\ ~args.processAll)
    /\ \E file \in {AudioFiles[ret.i + 1]} :
          IF ~args.processAll /\ LogSuccess(ret.processedFiles, CheckedKey(file))
          THEN ret' = [ret EXCEPT !.i = ret.i + 1,
                                  !.passedOver = ret.passedOver \cup {file}]
          ELSE \E success \in BOOLEAN :
                  ret' = [ret EXCEPT
                            !.i = ret.i + 1,
                            !.handled = ret.handled \cup {file},
                            !.marks = IF args.dryRunMode THEN ret.marks
                                      ELSE ret.marks \cup
                                           {[filename |-> RecordedKey(file),
                                             success |-> success,
                                             read |-> FALSE,
                                             log |-> EmptyLog]}]
    /\ UNCHANGED <<fn, args, phase, splitVars, playlist>>

\* markFileProcessed, first await: readProcessedLog (fileService.ts line 33).
MarkRead ==
    /\ \E m \in ret.marks :
          /\ ~m.read
          /\ ret' = [ret EXCEPT !.marks = (ret.marks \ {m}) \cup
                                    {[m EXCEPT !.read = TRUE,
                                               !.log = ret.processedFiles]}]
    /\ UNCHANGED <<fn, args, phase, splitVars, playlist>>

\* markFileProcessed, second await: the entry is set in the log that was
\* read and the whole log is written back (fileService.ts lines 34-40).
MarkWrite ==
    /\ \E m \in ret.marks :
          /\ m.read
          /\ ret' = [ret EXCEPT !.marks = ret.marks \ {m},
                                !.processedFiles = LogPut(m.log, m.filename, m.success)]
    /\ UNCHANGED <<fn, args, phase, splitVars, playlist>>

\* The loop is over (index.ts line 112) and the process ends once its
\* pending writes are done.
EndRun ==
    /\ phase = "loop"
    /\ ret.i = Len(AudioFiles)
    /\ ret.marks = {}
    /\ phase' = "idle"
    /\ UNCHANGED <<fn, args, ret, splitVars, playlist>>

ProcessNext == StartRun \/ SkipFile \/ ProcessFile \/ MarkRead \/ MarkWrite \/ EndRun

ProcessSpec == ProcessInit /\ [][ProcessNext]_vars

\* C21: a file that an earlier non-dry run finished successfully (its
\* markFileProcessed(file, success = true) has been written) is not handed to
\* the pipeline again by a run without --process-all: the run skips it.
C21_FinishedFileIsSkipped ==
    (fn = "processCommand" /\ ~args.processAll) =>
        ret.handled \cap ret.finished = {}

====
